---------------------------- MODULE Spec2Model ----------------------------
(***************************************************************************)
(* StyleHive dashboard: the recommendation and co-occurrence core.          *)
(*                                                                          *)
(*   src/utils/data_prep.py     DataPreprocessor                            *)
(*   src/utils/recommenders.py  MarketBasketAnalyzer,                       *)
(*                              CollaborativeFilteringRecommender,          *)
(*                              HybridRecommender                           *)
(*                                                                          *)
(* Every public method is one action.  `call` holds the method last called  *)
(* with its arguments and `result` the value it returned.                   *)
(*                                                                          *)
(* Numbers the code keeps as floats (support, confidence, lift, scores) are *)
(* exact rationals here, records [n, d] in lowest terms with d > 0.         *)
(* Cosine similarities, which are irrational in general, are fixed-point    *)
(* rationals with denominator SimScale.                                     *)
(***************************************************************************)
EXTENDS Integers, Sequences, FiniteSets, TLC

VARIABLES
    file,        \* the file at DataPreprocessor.data_path: [kind, rows]
    df,          \* DataPreprocessor.df: [loaded, rows, columns]
    mba,         \* a MarketBasketAnalyzer
    cf,          \* a CollaborativeFilteringRecommender
    fit,         \* the call of cf.fit in progress: [at, user_item_matrix,
                 \* components, raised]
    hybrid,      \* a HybridRecommender: [mba_weight, cf_weight, mba, cf]
    insights,    \* a BusinessInsights: [built, df, shares_df, product_stats,
                 \* co_occurrence]
    hash_order,  \* the iteration order of this process's string sets
    call,        \* the method last called and its arguments
    result,      \* what that call returned
    raised       \* the exception that call raised, "" when it returned

vars ==
    <<file, df, mba, cf, fit, hybrid, insights, hash_order, call, result, raised>>

---------------------------------------------------------------------------
(* Bounds of the model *)

MaxRows == 3
MaxBaskets == 2
MaxTopN == 2

(* The catalog (src/utils/data_generator.py:14-25), cut to three products. *)
Products == {"Blue Jeans", "Sneakers", "White T-shirt"}

(* One customer on two days *)
CustomerIDs == {2001}
Dates == {1, 2}

TopNs == 0..MaxTopN

---------------------------------------------------------------------------
(* Generic helpers *)

Abs(x) == IF x < 0 THEN -x ELSE x

RECURSIVE GCD(_, _)
GCD(a, b) == IF b = 0 THEN a ELSE GCD(b, a % b)

(* The rational n/d (d # 0) in lowest terms with a positive denominator. *)
Rat(n, d) ==
    LET g == GCD(Abs(n), Abs(d))
        s == IF d < 0 THEN -1 ELSE 1
    IN  [n |-> s * (n \div g), d |-> s * (d \div g)]

RLeq(a, b) == a.n * b.d <= b.n * a.d
RLess(a, b) == a.n * b.d < b.n * a.d
RAdd(a, b) == Rat(a.n * b.d + b.n * a.d, a.d * b.d)
RMul(a, b) == Rat(a.n * b.n, a.d * b.d)
RDiv(a, b) == Rat(a.n * b.d, a.d * b.n)

RECURSIVE SumSeq(_)
SumSeq(s) == IF s = <<>> THEN 0 ELSE Head(s) + SumSeq(Tail(s))

Range(s) == {s[i] : i \in DOMAIN s}

SeqsUpTo(S, n) == UNION {[1..k -> S] : k \in 0..n}

(* Python string order on the catalog: ASCII, so "Blue Jeans" < "Sneakers" *)
(* < "White T-shirt".                                                      *)
ProductRank(p) ==
    CASE p = "Blue Jeans" -> 1
      [] p = "Hoodie" -> 2
      [] p = "Leather Jacket" -> 3
      [] p = "Sneakers" -> 4
      [] p = "Sunglasses" -> 5
      [] p = "White T-shirt" -> 6

(* The elements of S as a sequence in the total order Less. *)
SortSet(S, Less(_, _)) ==
    [r \in 1..Cardinality(S) |->
        CHOOSE x \in S : Cardinality({y \in S : Less(y, x)}) = r - 1]

(* Sort keys are tuples of rationals, compared like Python tuples. *)
KeyAbove(a, b) ==
    \E i \in DOMAIN a :
        /\ RLess(b[i], a[i])
        /\ \A j \in 1..(i - 1) : a[j] = b[j]

RECURSIVE InsertDesc(_, _)
InsertDesc(sorted, x) ==
    IF sorted = <<>> THEN <<x>>
    ELSE IF KeyAbove(x.key, Head(sorted).key) THEN <<x>> \o sorted
    ELSE <<Head(sorted)>> \o InsertDesc(Tail(sorted), x)

RECURSIVE SortDesc(_)
SortDesc(s) ==
    IF s = <<>> THEN <<>>
    ELSE InsertDesc(SortDesc(SubSeq(s, 1, Len(s) - 1)), s[Len(s)])

(* list.sort(key=..., reverse=True) and DataFrame.sort_values(...,          *)
(* ascending=False): a stable sort by decreasing key, entries of equal key  *)
(* staying in the order they had.                                           *)
StableSortDesc(s, Key(_)) ==
    LET sorted == SortDesc([i \in DOMAIN s |-> [key |-> Key(s[i]), val |-> s[i]]])
    IN  [i \in DOMAIN sorted |-> sorted[i].val]

(* s[:n] for n >= 0 *)
Take(s, n) == SubSeq(s, 1, IF n < Len(s) THEN n ELSE Len(s))

---------------------------------------------------------------------------
(* DataPreprocessor (src/utils/data_prep.py) *)

Rows == [CustomerID : CustomerIDs, Product : Products, Date : Dates]

(* df.groupby(['CustomerID', 'Date'])['Product'].apply(list).tolist():     *)
(* one list per (customer, date) key, keys sorted by customer and then by  *)
(* date, each list holding the products of the key's rows in row order,    *)
(* repeats included.  The sorted keys are the keys present, picked in      *)
(* order out of customers x first..last date.                              *)
GroupBaskets(rows) ==
    IF rows = <<>> THEN <<>>
    ELSE LET present == {<<rows[i].CustomerID, rows[i].Date>> : i \in DOMAIN rows}
             customers == SortSet({k[1] : k \in present}, <)
             dates == {k[2] : k \in present}
             first == CHOOSE d \in dates : \A e \in dates : d <= e
             last == CHOOSE d \in dates : \A e \in dates : e <= d
             width == last - first + 1
             keys == SelectSeq([j \in 1..(Len(customers) * width) |->
                                  <<customers[((j - 1) \div width) + 1],
                                    first + ((j - 1) % width)>>],
                               LAMBDA k : k \in present)
             group(k) == SelectSeq(rows, LAMBDA r : <<r.CustomerID, r.Date>> = k)
         IN  [g \in DOMAIN keys |->
                 [i \in DOMAIN group(keys[g]) |-> group(keys[g])[i].Product]]

UniqueProducts(rows) == {rows[i].Product : i \in DOMAIN rows}

(* What the loops of lines 108-111 add to cell (p1, p2) for one basket. *)
PairIncrements(basket, p1, p2) ==
    Cardinality({ij \in (DOMAIN basket) \X (DOMAIN basket) :
                    /\ ij[1] # ij[2]
                    /\ basket[ij[1]] = p1
                    /\ basket[ij[2]] = p2})

CoOccurrence(rows) ==
    LET baskets == GroupBaskets(rows)
        products == UniqueProducts(rows)
    IN  [pq \in products \X products |->
            SumSeq([b \in DOMAIN baskets |->
                      IF Len(baskets[b]) > 1
                      THEN PairIncrements(baskets[b], pq[1], pq[2])
                      ELSE 0])]

Datasets == SeqsUpTo(Rows, MaxRows)

(* The file at data_path: missing, of zero bytes, or a CSV with a header   *)
(* line and the rows (none for a header alone).                            *)
MissingFile == [kind |-> "missing", rows |-> <<>>]
EmptyFile == [kind |-> "empty", rows |-> <<>>]
CSV(rows) == [kind |-> "csv", rows |-> rows]

(* What a method hands back: a value, or the exception it raises. *)
Ret(v) == [value |-> v, raised |-> ""]
Raise(e) == [value |-> <<>>, raised |-> e]

(* pd.read_csv(self.data_path) *)
ReadCSV(f) ==
    IF f.kind = "missing" THEN Raise("FileNotFoundError")
    ELSE IF f.kind = "empty" THEN Raise("EmptyDataError")
    ELSE Ret(f.rows)

(* The columns of the frame load_data builds: the three of the file and  *)
(* the four derived from Date (lines 23-34).                               *)
LoadedColumns ==
    {"CustomerID", "Product", "Date", "Year", "Month", "DayOfWeek", "Season"}

(* read_csv of the file with the derived columns added *)
NewDataFrame(rows) == [loaded |-> TRUE, rows |-> rows, columns |-> LoadedColumns]

NoDataFrame == [loaded |-> FALSE, rows |-> <<>>, columns |-> {}]

(* `if self.df is None: self.load_data()`: the dataset a query works on,   *)
(* and the exception when the load raises.                                 *)
Loaded ==
    IF df.loaded \/ ReadCSV(file).raised # "" THEN df
    ELSE NewDataFrame(ReadCSV(file).value)

LoadRaised == IF df.loaded THEN "" ELSE ReadCSV(file).raised

(* Before the first call *)
NoCall == [op |-> "none"]

(* No call of CollaborativeFilteringRecommender.fit in progress, and none  *)
(* has raised.                                                             *)
NoFit == [at |-> "idle", user_item_matrix |-> <<>>, components |-> <<>>,
          raised |-> FALSE]

(* self.df is bound to a new frame: a BusinessInsights built before keeps  *)
(* the frame it was given and no longer shares the preprocessor's.         *)
load_data ==
    /\ df' = IF ReadCSV(file).raised # "" THEN df
             ELSE NewDataFrame(ReadCSV(file).value)
    /\ insights' = IF ReadCSV(file).raised # "" THEN insights
                   ELSE [insights EXCEPT !.shares_df = FALSE]
    /\ call' = [op |-> "load_data"]
    /\ result' = ReadCSV(file).value
    /\ raised' = ReadCSV(file).raised
    /\ UNCHANGED <<file, fit, mba, cf, hybrid, hash_order>>

get_co_occurrence_matrix ==
    /\ df' = Loaded
    /\ call' = [op |-> "get_co_occurrence_matrix"]
    /\ result' = IF LoadRaised # "" THEN <<>> ELSE CoOccurrence(df'.rows)
    /\ raised' = LoadRaised
    /\ UNCHANGED <<file, fit, mba, cf, hybrid, insights, hash_order>>

(* The 1000 of lines 67-68 *)
BasketLimit == 1000

(* DataPreprocessor.get_basket_data: the baskets of more than one row, the *)
(* first 1000 of them.                                                     *)
BasketData(rows) ==
    LET multi_item_baskets ==
            SelectSeq(GroupBaskets(rows), LAMBDA basket : Len(basket) > 1)
    IN  IF Len(multi_item_baskets) > BasketLimit
        THEN SubSeq(multi_item_baskets, 1, BasketLimit)
        ELSE multi_item_baskets

get_basket_data ==
    /\ df' = Loaded
    /\ call' = [op |-> "get_basket_data"]
    /\ result' = IF LoadRaised # "" THEN <<>> ELSE BasketData(df'.rows)
    /\ raised' = LoadRaised
    /\ UNCHANGED <<file, fit, mba, cf, hybrid, insights, hash_order>>

---------------------------------------------------------------------------
(* Sets of strings.  A frozenset is iterated in hash order, which CPython  *)
(* fixes per process (PYTHONHASHSEED): hash_order is that order, a         *)
(* permutation of the catalog chosen when the process starts.              *)

HashOrders ==
    {p \in [1..Cardinality(Products) -> Products] :
        \A i, j \in DOMAIN p : i # j => p[i] # p[j]}

HashRank(order, p) == CHOOSE i \in DOMAIN order : order[i] = p

(* list(S)[0] for a set S iterated in `order` *)
First(order, S) ==
    CHOOSE x \in S : \A y \in S : HashRank(order, x) <= HashRank(order, y)

(* For sets of the same size: S is before T in the lexicographic order of  *)
(* their elements listed by rank.                                          *)
LexLess(S, T, rank(_)) ==
    /\ S # T
    /\ LET diff == (S \ T) \cup (T \ S)
       IN  (CHOOSE x \in diff : \A y \in diff : rank(x) <= rank(y)) \in S

---------------------------------------------------------------------------
(* MarketBasketAnalyzer (src/utils/recommenders.py:16-121) *)

(* TransactionEncoder().fit(baskets).transform(baskets): one row per      *)
(* basket, one boolean column per product; a product listed twice in a    *)
(* basket is one TRUE cell.                                                *)
TransactionEncoder(baskets) == [i \in DOMAIN baskets |-> Range(baskets[i])]

EncoderColumns(baskets) == UNION {Range(baskets[i]) : i \in DOMAIN baskets}

SupportCount(encoded, items) ==
    Cardinality({i \in DOMAIN encoded : items \subseteq encoded[i]})

(* A support that under-reports single items by a tenth: a pair can then  *)
(* have more support than its items.                                       *)
SupportUnderSingle(encoded, items) ==
    IF Cardinality(items) = 1
    THEN Rat(9 * SupportCount(encoded, items), 10 * Len(encoded))
    ELSE Rat(SupportCount(encoded, items), Len(encoded))

(* Fraction of the rows that hold every item of `items`. *)
Support(encoded, items) == Rat(SupportCount(encoded, items), Len(encoded))

ItemsetLess(S, T) ==
    \/ Cardinality(S) < Cardinality(T)
    \/ Cardinality(S) = Cardinality(T) /\ LexLess(S, T, ProductRank)

(* mlxtend.frequent_patterns.apriori(df, min_support, use_colnames=True): *)
(* every non-empty set of columns whose support is >= min_support, by     *)
(* size and then by column order.  No rows: no itemsets.                   *)
Apriori(encoded, columns, min_support) ==
    LET frequent == IF Len(encoded) = 0 THEN {}
                    ELSE {S \in (SUBSET columns) \ {{}} :
                            RLeq(min_support, Support(encoded, S))}
        ordered == SortSet(frequent, ItemsetLess)
    IN  [i \in DOMAIN ordered |->
            [itemsets |-> ordered[i], support |-> Support(encoded, ordered[i])]]

SupportOf(frequent_itemsets, items) ==
    LET i == CHOOSE i \in DOMAIN frequent_itemsets :
                frequent_itemsets[i].itemsets = items
    IN  frequent_itemsets[i].support

(* The rule antecedent -> itemset \ antecedent, with mlxtend's metrics. *)
MakeRule(frequent_itemsets, itemset, antecedent) ==
    LET sAC == SupportOf(frequent_itemsets, itemset)
        sA == SupportOf(frequent_itemsets, antecedent)
        sC == SupportOf(frequent_itemsets, itemset \ antecedent)
    IN  [antecedents |-> antecedent,
         consequents |-> itemset \ antecedent,
         antecedent_support |-> sA,
         consequent_support |-> sC,
         support |-> sAC,
         confidence |-> RDiv(sAC, sA),
         lift |-> RDiv(RDiv(sAC, sA), sC)]

(* combinations(itemset, r) for r = len - 1 down to 1: larger antecedents *)
(* first, those of one size in the order of the set's iteration.          *)
AntecedentLess(order, S, T) ==
    \/ Cardinality(S) > Cardinality(T)
    \/ Cardinality(S) = Cardinality(T)
          /\ LexLess(S, T, LAMBDA p : HashRank(order, p))

RECURSIVE Concat(_)
Concat(ss) == IF ss = <<>> THEN <<>> ELSE Head(ss) \o Concat(Tail(ss))

(* mlxtend.frequent_patterns.association_rules(frequent_itemsets,         *)
(* metric="confidence", min_threshold): for every frequent itemset of two *)
(* or more items and every non-empty proper subset of it as antecedent,   *)
(* the rule, kept when its confidence is >= min_threshold.                 *)
AssociationRules(frequent_itemsets, min_threshold, order) ==
    LET rulesOf(itemset) ==
            LET ants == SortSet((SUBSET itemset) \ {{}, itemset},
                                LAMBDA S, T : AntecedentLess(order, S, T))
                all == [a \in DOMAIN ants |->
                          MakeRule(frequent_itemsets, itemset, ants[a])]
            IN  SelectSeq(all, LAMBDA r : RLeq(min_threshold, r.confidence))
    IN  Concat([i \in DOMAIN frequent_itemsets |->
                  IF Cardinality(frequent_itemsets[i].itemsets) >= 2
                  THEN rulesOf(frequent_itemsets[i].itemsets)
                  ELSE <<>>])

---------------------------------------------------------------------------
(* Inputs of the market-basket model *)

(* Baskets as lists of products, one of them naming a product twice. *)
BasketChoices ==
    <<  <<"Blue Jeans", "Sneakers", "White T-shirt">>,
        <<"Blue Jeans", "Sneakers">>,
        <<"Sneakers", "White T-shirt">>,
        <<"Blue Jeans">>,
        <<"Sneakers", "Sneakers">>  >>

(* Index lists of up to n baskets, one order of each list: fit reads a     *)
(* basket list through the column sums of its encoding only.               *)
ListsOf(choices, n) ==
    LET idx == {s \in SeqsUpTo(DOMAIN choices, n) :
                   \A i \in 1..(Len(s) - 1) : s[i] <= s[i + 1]}
    IN  {[i \in DOMAIN s |-> choices[s[i]]] : s \in idx}

BasketLists == ListsOf(BasketChoices, MaxBaskets)

(* The defaults of __init__ (0.01, 0.1) and a pair that filters at the    *)
(* model's sizes.                                                          *)
SupportChoices == {Rat(1, 100), Rat(3, 4)}
ConfidenceChoices == {Rat(1, 10), Rat(3, 4)}

(* The two library calls are pure.  Each is tabulated over the model's     *)
(* inputs (@@ <<>> has TLC build the table once), and fit looks its         *)
(* results up.                                                              *)
AprioriTable ==
    [k \in BasketLists \X SupportChoices |->
        Apriori(TransactionEncoder(k[1]), EncoderColumns(k[1]), k[2])] @@ <<>>

AssociationRulesTable ==
    [k \in BasketLists \X SupportChoices \X ConfidenceChoices \X HashOrders |->
        AssociationRules(AprioriTable[<<k[1], k[2]>>], k[3], k[4])] @@ <<>>

(* MarketBasketAnalyzer.__init__ *)
NewMBA(min_support, min_confidence) ==
    [min_support |-> min_support,
     min_confidence |-> min_confidence,
     fitted |-> FALSE,            \* frequent_itemsets and rules are None
     frequent_itemsets |-> <<>>,
     rules |-> <<>>]

(* A fit without the else branch of lines 44-45: the rules stay what they  *)
(* were when nothing is frequent.                                          *)
MBA_fit_NoElse(self, baskets, order) ==
    LET frequent_itemsets == AprioriTable[<<baskets, self.min_support>>]
        rules == AssociationRulesTable[
                     <<baskets, self.min_support, self.min_confidence, order>>]
    IN  [self EXCEPT
            !.fitted = TRUE,
            !.frequent_itemsets = frequent_itemsets,
            !.rules = IF Len(frequent_itemsets) > 0 THEN rules ELSE self.rules]

(* A fit that appends the new rules to those it holds *)
MBA_fit_Accumulate(self, baskets, order) ==
    LET frequent_itemsets == AprioriTable[<<baskets, self.min_support>>]
        rules == AssociationRulesTable[
                     <<baskets, self.min_support, self.min_confidence, order>>]
    IN  [self EXCEPT
            !.fitted = TRUE,
            !.frequent_itemsets = frequent_itemsets,
            !.rules = self.rules
                          \o (IF Len(frequent_itemsets) > 0 THEN rules ELSE <<>>)]

(* A fit that hands association_rules the default threshold instead of    *)
(* self.min_confidence.                                                    *)
MBA_fit_DefaultConfidence(self, baskets, order) ==
    LET frequent_itemsets == AprioriTable[<<baskets, self.min_support>>]
        rules == AssociationRulesTable[
                     <<baskets, self.min_support, Rat(1, 10), order>>]
    IN  [self EXCEPT
            !.fitted = TRUE,
            !.frequent_itemsets = frequent_itemsets,
            !.rules = IF Len(frequent_itemsets) > 0 THEN rules ELSE <<>>]

(* MarketBasketAnalyzer.fit: the analyzer after self.fit(baskets) *)
MBA_fit(self, baskets, order) ==
    LET frequent_itemsets == AprioriTable[<<baskets, self.min_support>>]
        rules == AssociationRulesTable[
                     <<baskets, self.min_support, self.min_confidence, order>>]
    IN  [self EXCEPT
            !.fitted = TRUE,
            !.frequent_itemsets = frequent_itemsets,
            !.rules = IF Len(frequent_itemsets) > 0 THEN rules ELSE <<>>]

(* sort_values(['confidence', 'lift'], ascending=False) *)
RuleKey(rule) == <<rule.confidence, rule.lift>>

(* The dict a rule is recommended as.  `antecedents` is bookkeeping of the *)
(* model (the rule the entry comes from); the code's dict carries an       *)
(* explanation string instead.                                             *)
MBARec(rule, order) ==
    [product |-> First(order, rule.consequents),
     confidence |-> rule.confidence,
     lift |-> rule.lift,
     support |-> rule.support,
     antecedents |-> rule.antecedents]

(* Lines 55-57: the rules with the product in the antecedent. *)
ProductRules(rules, product) ==
    SelectSeq(rules, LAMBDA r : product \in r.antecedents)

(* get_recommendations without the sort of line 63 *)
MBA_get_recommendations_NoSort(self, product, top_n, order) ==
    IF ~self.fitted \/ Len(self.rules) = 0 THEN <<>>
    ELSE LET head == Take(ProductRules(self.rules, product), top_n)
             recs == [i \in DOMAIN head |-> MBARec(head[i], order)]
         IN  SelectSeq(recs, LAMBDA rec : rec.product # product)

(* get_recommendations without head(top_n) *)
MBA_get_recommendations_NoHead(self, product, top_n, order) ==
    IF ~self.fitted \/ Len(self.rules) = 0 THEN <<>>
    ELSE LET product_rules == ProductRules(self.rules, product)
             sorted == StableSortDesc(product_rules, RuleKey)
             recs == [i \in DOMAIN sorted |-> MBARec(sorted[i], order)]
         IN  SelectSeq(recs, LAMBDA rec : rec.product # product)

(* MarketBasketAnalyzer.get_recommendations *)
MBA_get_recommendations(self, product, top_n, order) ==
    IF ~self.fitted \/ Len(self.rules) = 0 THEN <<>>
    ELSE LET product_rules == ProductRules(self.rules, product)
             head == Take(StableSortDesc(product_rules, RuleKey), top_n)
         IN  IF Len(product_rules) = 0 THEN <<>>
             ELSE LET recs == [i \in DOMAIN head |-> MBARec(head[i], order)]
                  IN  SelectSeq(recs, LAMBDA rec : rec.product # product)

(* The loop without seen_products.add(product) *)
RECURSIVE BasketLoopNoAdd(_, _, _, _, _)
BasketLoopNoAdd(rules, seen_products, recommendations, top_n, order) ==
    IF rules = <<>> THEN recommendations
    ELSE LET rec == MBARec(Head(rules), order)
         IN  IF rec.product \notin seen_products
             THEN LET appended == Append(recommendations, rec)
                  IN  IF Len(appended) >= top_n THEN appended
                      ELSE BasketLoopNoAdd(Tail(rules), seen_products,
                                           appended, top_n, order)
             ELSE BasketLoopNoAdd(Tail(rules), seen_products, recommendations,
                                  top_n, order)

(* The loop of lines 106-119 over the sorted rules. *)
RECURSIVE BasketLoop(_, _, _, _, _)
BasketLoop(rules, seen_products, recommendations, top_n, order) ==
    IF rules = <<>> THEN recommendations
    ELSE LET rec == MBARec(Head(rules), order)
         IN  IF rec.product \notin seen_products
             THEN LET appended == Append(recommendations, rec)
                  IN  IF Len(appended) >= top_n THEN appended
                      ELSE BasketLoop(Tail(rules), seen_products \cup {rec.product},
                                      appended, top_n, order)
             ELSE BasketLoop(Tail(rules), seen_products, recommendations,
                             top_n, order)

(* Lines 87-89: the rules whose antecedent holds the whole basket. *)
SupersetRules(rules, basket_set) ==
    SelectSeq(rules, LAMBDA r : basket_set \subseteq r.antecedents)

(* Lines 93-95: the rules whose antecedent shares an item with the basket. *)
IntersectingRules(rules, basket_set) ==
    SelectSeq(rules, LAMBDA r : Cardinality(basket_set \cap r.antecedents) > 0)

(* Both passes at once: every rule that shares an item with the basket,   *)
(* or all the rules for an empty basket.                                   *)
BasketRulesBlended(rules, basket_set) ==
    IF basket_set = {} THEN rules ELSE IntersectingRules(rules, basket_set)

(* Lines 87-95: the first pass, and the second when the first finds none. *)
BasketRules(rules, basket_set) ==
    LET basket_rules == SupersetRules(rules, basket_set)
    IN  IF Len(basket_rules) = 0
        THEN IntersectingRules(rules, basket_set)
        ELSE basket_rules

(* MarketBasketAnalyzer.get_basket_recommendations *)
MBA_get_basket_recommendations(self, basket, top_n, order) ==
    IF ~self.fitted \/ Len(self.rules) = 0 THEN <<>>
    ELSE LET basket_rules == BasketRules(self.rules, Range(basket))
         IN  IF Len(basket_rules) = 0 THEN <<>>
             ELSE BasketLoop(StableSortDesc(basket_rules, RuleKey),
                             Range(basket), <<>>, top_n, order)

(* The baskets a recommendation is asked for *)
QueryBaskets ==
    {<<>>,
     <<"Blue Jeans">>,
     <<"Blue Jeans", "Sneakers">>,
     <<"Blue Jeans", "White T-shirt">>,
     <<"Blue Jeans", "Sneakers", "White T-shirt">>,
     <<"White T-shirt", "White T-shirt">>}

mba_fit(baskets) ==
    /\ mba' = MBA_fit(mba, baskets, hash_order)
    /\ call' = [op |-> "mba_fit", baskets |-> baskets,
                rules_before |-> Len(mba.rules)]
    /\ result' = <<>>
    /\ raised' = ""
    /\ UNCHANGED <<file, fit, df, cf, hybrid, insights, hash_order>>

mba_get_recommendations_InPlace(product, top_n) ==
    /\ mba' = [mba EXCEPT !.rules = StableSortDesc(mba.rules, RuleKey)]
    /\ call' = [op |-> "mba_get_recommendations",
                product |-> product, top_n |-> top_n]
    /\ result' = MBA_get_recommendations(mba, product, top_n, hash_order)
    /\ raised' = ""
    /\ UNCHANGED <<file, fit, df, cf, hybrid, insights, hash_order>>

mba_get_recommendations(product, top_n) ==
    /\ call' = [op |-> "mba_get_recommendations",
                product |-> product, top_n |-> top_n]
    /\ result' = MBA_get_recommendations(mba, product, top_n, hash_order)
    /\ raised' = ""
    /\ UNCHANGED <<file, fit, df, mba, cf, hybrid, insights, hash_order>>

mba_get_basket_recommendations(basket, top_n) ==
    /\ call' = [op |-> "mba_get_basket_recommendations",
                basket |-> basket, top_n |-> top_n]
    /\ result' = MBA_get_basket_recommendations(mba, basket, top_n, hash_order)
    /\ raised' = ""
    /\ UNCHANGED <<file, fit, df, mba, cf, hybrid, insights, hash_order>>

---------------------------------------------------------------------------
(* CollaborativeFilteringRecommender (src/utils/recommenders.py:123-201) *)

(* list.index(x) *)
IndexOf(s, x) ==
    CHOOSE i \in DOMAIN s : s[i] = x /\ \A j \in 1..(i - 1) : s[j] # x

(* A user-item matrix: the index (customers), the columns (products) and   *)
(* the purchase count of each cell.                                        *)
Matrix(index, columns, cells) ==
    [index |-> index, columns |-> columns, cells |-> cells]

EmptyMatrix == Matrix(<<>>, <<>>, <<>>)

UserIDs == {2001}
UnknownUserIDs == {2002}
PurchaseCounts == {0, 1}
ColumnChoices == {<<"Blue Jeans", "Sneakers", "White T-shirt">>,
                  <<"Blue Jeans", "Sneakers">>}

MatricesOn(columns, counts) ==
    {Matrix(SortSet(UserIDs, <), columns, cells) :
        cells \in [UserIDs \X Range(columns) -> counts]}

Matrices ==
    UNION {MatricesOn(columns, PurchaseCounts) : columns \in ColumnChoices}
        \cup {EmptyMatrix}

(* The coordinates of a latent factor.  The model does not compute the     *)
(* decomposition: components_ is any assignment of a vector to each        *)
(* column, the vectors lying along the first of the n_components axes.     *)
FactorValues == {-1, 1}

FactorVectors(n_components) ==
    {[d \in 1..n_components |-> IF d = 1 THEN x ELSE 0] : x \in FactorValues}

Dot(a, b) == SumSeq([d \in DOMAIN a |-> a[d] * b[d]])

(* TruncatedSVD.fit_transform raises ValueError on a matrix without rows   *)
(* or columns and when n_components exceeds the number of columns.         *)
SVDRaises(n_components, X) ==
    \/ Len(X.index) = 0
    \/ Len(X.columns) = 0
    \/ n_components > Len(X.columns)

(* The values svd.components_.T can take: one vector per column. *)
SVDComponents(n_components, X) ==
    [DOMAIN X.columns -> FactorVectors(n_components)]

(* svd.fit_transform(X): the rows of X projected on the components. *)
FitTransform(X, item_factors, n_components) ==
    [i \in DOMAIN X.index |->
        [d \in 1..n_components |->
            SumSeq([j \in DOMAIN X.columns |->
                      X.cells[<<X.index[i], X.columns[j]>>] * item_factors[j][d]])]]

(* The largest r with r * r <= n *)
ISqrt(n) == CHOOSE r \in 0..n : r * r <= n /\ n < (r + 1) * (r + 1)

(* sklearn cosine_similarity of two vectors; a vector of norm zero has     *)
(* similarity 0 to everything.  The quotient is exact when the product of  *)
(* the squared norms is a square, as it is for vectors along one axis.     *)
CosineSimilarity(a, b) ==
    IF Dot(a, a) = 0 \/ Dot(b, b) = 0 THEN Rat(0, 1)
    ELSE Rat(Dot(a, b), ISqrt(Dot(a, a) * Dot(b, b)))

(* CollaborativeFilteringRecommender.__init__ *)
NewCF(n_components) ==
    [n_components |-> n_components,
     has_matrix |-> FALSE,        \* user_item_matrix is None
     user_item_matrix |-> EmptyMatrix,
     has_products |-> FALSE,      \* products is None
     products |-> <<>>,
     has_factors |-> FALSE,       \* user_factors is None
     user_factors |-> <<>>,
     has_item_factors |-> FALSE,  \* item_factors is None
     item_factors |-> <<>>]

(* CollaborativeFilteringRecommender.fit, lines 134-135: what is assigned  *)
(* before the decomposition runs.                                          *)
CF_fit_matrix(self, user_item_matrix) ==
    [self EXCEPT
        !.has_matrix = TRUE,
        !.user_item_matrix = user_item_matrix,
        !.has_products = TRUE,
        !.products = user_item_matrix.columns]

(* CollaborativeFilteringRecommender.fit: the recommender after            *)
(* self.fit(user_item_matrix) when the decomposition gives `components`,   *)
(* and after the ValueError of line 139 when it raises.                    *)
CF_fit(self, user_item_matrix, components) ==
    IF SVDRaises(self.n_components, user_item_matrix)
    THEN CF_fit_matrix(self, user_item_matrix)
    ELSE [CF_fit_matrix(self, user_item_matrix) EXCEPT
            !.has_factors = TRUE,
            !.user_factors = FitTransform(user_item_matrix, components,
                                          self.n_components),
            !.has_item_factors = TRUE,
            !.item_factors = components]

CF_fit_raised(self, user_item_matrix) ==
    IF SVDRaises(self.n_components, user_item_matrix) THEN "ValueError" ELSE ""

ScoreKey(entry) == <<Rat(entry.score, 1)>>

(* The loop without the test on purchased_products *)
RECURSIVE UserLoopNoFilter(_, _, _, _)
UserLoopNoFilter(product_scores, purchased_products, recommendations, top_n) ==
    IF product_scores = <<>> THEN recommendations
    ELSE LET appended == Append(recommendations, Head(product_scores))
         IN  IF Len(appended) >= top_n THEN appended
             ELSE UserLoopNoFilter(Tail(product_scores), purchased_products,
                                   appended, top_n)

(* The loop of lines 162-171 over the sorted (product, score) pairs. *)
RECURSIVE UserLoop(_, _, _, _)
UserLoop(product_scores, purchased_products, recommendations, top_n) ==
    IF product_scores = <<>> THEN recommendations
    ELSE IF Head(product_scores).product \notin purchased_products
         THEN LET appended == Append(recommendations, Head(product_scores))
              IN  IF Len(appended) >= top_n THEN appended
                  ELSE UserLoop(Tail(product_scores), purchased_products,
                                appended, top_n)
         ELSE UserLoop(Tail(product_scores), purchased_products,
                       recommendations, top_n)

(* CollaborativeFilteringRecommender.get_user_recommendations *)
CF_get_user_recommendations(self, user_id, top_n) ==
    IF ~self.has_matrix THEN Raise("AttributeError")
    ELSE IF user_id \notin Range(self.user_item_matrix.index) THEN Ret(<<>>)
    ELSE LET X == self.user_item_matrix
             purchased_products ==
                 {p \in Range(X.columns) : X.cells[<<user_id, p>>] > 0}
             loc == IndexOf(X.index, user_id)
         IN  IF ~self.has_factors THEN Raise("TypeError")
             ELSE IF loc > Len(self.user_factors) THEN Raise("IndexError")
             ELSE IF ~self.has_item_factors \/ ~self.has_products
                  THEN Raise("TypeError")
             ELSE LET user_vector == self.user_factors[loc]
                      predicted_ratings ==
                          [j \in DOMAIN self.item_factors |->
                              Dot(self.item_factors[j], user_vector)]
                      n == IF Len(self.products) < Len(predicted_ratings)
                           THEN Len(self.products) ELSE Len(predicted_ratings)
                      product_scores ==
                          [j \in 1..n |-> [product |-> self.products[j],
                                           score |-> predicted_ratings[j]]]
                  IN  Ret(UserLoop(StableSortDesc(product_scores, ScoreKey),
                                   purchased_products, <<>>, top_n))

SimilarityKey(entry) == <<entry.similarity>>

(* CollaborativeFilteringRecommender.get_product_similarity *)
CF_get_product_similarity(self, product, top_n) ==
    IF ~self.has_products THEN Raise("TypeError")
    ELSE IF product \notin Range(self.products) THEN Ret(<<>>)
    ELSE IF ~self.has_item_factors THEN Raise("TypeError")
    ELSE IF Len(self.products) > Len(self.item_factors) THEN Raise("IndexError")
    ELSE LET product_vector == self.item_factors[IndexOf(self.products, product)]
             others == SelectSeq([i \in DOMAIN self.products |-> i],
                                 LAMBDA i : self.products[i] # product)
             similarities ==
                 [k \in DOMAIN others |->
                     [product |-> self.products[others[k]],
                      similarity |->
                          CosineSimilarity(product_vector,
                                           self.item_factors[others[k]])]]
         IN  Ret(Take(StableSortDesc(similarities, SimilarityKey), top_n))

(* CollaborativeFilteringRecommender.fit one assignment at a time, for a  *)
(* caller that queries the recommender from another thread while fit runs. *)
CF_fit_line134(self, user_item_matrix) ==
    [self EXCEPT !.has_matrix = TRUE, !.user_item_matrix = user_item_matrix]

CF_fit_line135(self, user_item_matrix) ==
    [self EXCEPT !.has_products = TRUE, !.products = user_item_matrix.columns]

CF_fit_line139(self, user_item_matrix, components) ==
    [self EXCEPT
        !.has_factors = TRUE,
        !.user_factors = FitTransform(user_item_matrix, components,
                                      self.n_components)]

CF_fit_line140_Skipped(self, components) == self

CF_fit_line140(self, components) ==
    [self EXCEPT !.has_item_factors = TRUE, !.item_factors = components]

FitCall(user_item_matrix) == [op |-> "cf_fit", user_item_matrix |-> user_item_matrix]

cf_fit_line134(user_item_matrix) ==
    /\ fit.at = "idle"
    /\ cf' = CF_fit_line134(cf, user_item_matrix)
    /\ fit' = [fit EXCEPT !.at = "line135", !.user_item_matrix = user_item_matrix]
    /\ call' = FitCall(user_item_matrix)
    /\ result' = <<>>
    /\ raised' = ""
    /\ UNCHANGED <<file, df, mba, hybrid, insights, hash_order>>

cf_fit_line135 ==
    /\ fit.at = "line135"
    /\ cf' = CF_fit_line135(cf, fit.user_item_matrix)
    /\ fit' = [fit EXCEPT !.at = "line139"]
    /\ call' = FitCall(fit.user_item_matrix)
    /\ result' = <<>>
    /\ raised' = ""
    /\ UNCHANGED <<file, df, mba, hybrid, insights, hash_order>>

(* Lines 138-139: fit_transform raises, and fit with it, or gives the      *)
(* components the next line reads from self.svd.                           *)
cf_fit_line139 ==
    /\ fit.at = "line139"
    /\ IF SVDRaises(cf.n_components, fit.user_item_matrix)
       THEN /\ cf' = cf
            /\ fit' = [fit EXCEPT !.at = "idle", !.raised = TRUE]
            /\ raised' = "ValueError"
       ELSE /\ \E components \in SVDComponents(cf.n_components, fit.user_item_matrix) :
                  /\ cf' = CF_fit_line139(cf, fit.user_item_matrix, components)
                  /\ fit' = [fit EXCEPT !.at = "line140", !.components = components]
            /\ raised' = ""
    /\ call' = FitCall(fit.user_item_matrix)
    /\ result' = <<>>
    /\ UNCHANGED <<file, df, mba, hybrid, insights, hash_order>>

cf_fit_line140 ==
    /\ fit.at = "line140"
    /\ cf' = CF_fit_line140(cf, fit.components)
    /\ fit' = [fit EXCEPT !.at = "idle"]
    /\ call' = FitCall(fit.user_item_matrix)
    /\ result' = <<>>
    /\ raised' = ""
    /\ UNCHANGED <<file, df, mba, hybrid, insights, hash_order>>

(* n_components is 10 by default, 5 in app.py and 3 in test_app.py, on a   *)
(* catalog of 10 products; on the catalog of the model it is 2 or 3.       *)
ComponentChoices == {2, 3}

cf_fit(user_item_matrix) ==
    /\ \E components \in SVDComponents(cf.n_components, user_item_matrix) :
          cf' = CF_fit(cf, user_item_matrix, components)
    /\ call' = [op |-> "cf_fit", user_item_matrix |-> user_item_matrix]
    /\ result' = <<>>
    /\ raised' = CF_fit_raised(cf, user_item_matrix)
    /\ UNCHANGED <<file, fit, df, mba, hybrid, insights, hash_order>>

cf_get_user_recommendations(user_id, top_n) ==
    /\ call' = [op |-> "cf_get_user_recommendations",
                user_id |-> user_id, top_n |-> top_n]
    /\ result' = CF_get_user_recommendations(cf, user_id, top_n).value
    /\ raised' = CF_get_user_recommendations(cf, user_id, top_n).raised
    /\ UNCHANGED <<file, fit, df, mba, cf, hybrid, insights, hash_order>>

cf_get_product_similarity(product, top_n) ==
    /\ call' = [op |-> "cf_get_product_similarity",
                product |-> product, top_n |-> top_n]
    /\ result' = CF_get_product_similarity(cf, product, top_n).value
    /\ raised' = CF_get_product_similarity(cf, product, top_n).raised
    /\ UNCHANGED <<file, fit, df, mba, cf, hybrid, insights, hash_order>>

---------------------------------------------------------------------------
(* HybridRecommender (src/utils/recommenders.py:203-258) *)

(* The default n_components of the recommender HybridRecommender builds,   *)
(* on the catalog of the model.                                            *)
DefaultComponents == 2

(* HybridRecommender.__init__ *)
NewHybrid(mba_weight, cf_weight) ==
    [mba_weight |-> mba_weight,
     cf_weight |-> cf_weight,
     mba |-> NewMBA(Rat(1, 100), Rat(1, 10)),
     cf |-> NewCF(DefaultComponents)]

(* HybridRecommender.fit: both models after self.fit(baskets,              *)
(* user_item_matrix); the analyzer is fitted before the decomposition can  *)
(* raise.                                                                  *)
Hybrid_fit(self, baskets, user_item_matrix, components, order) ==
    [self EXCEPT
        !.mba = MBA_fit(self.mba, baskets, order),
        !.cf = CF_fit(self.cf, user_item_matrix, components)]

HasProduct(combined_scores, product_name) ==
    \E i \in DOMAIN combined_scores : combined_scores[i].product = product_name

PositionOf(combined_scores, product_name) ==
    CHOOSE i \in DOMAIN combined_scores :
        combined_scores[i].product = product_name

SetItem_Append(combined_scores, entry) == Append(combined_scores, entry)

(* combined_scores[product_name] = entry on a dict, which lists its keys   *)
(* in the order they were first set.                                       *)
SetItem(combined_scores, entry) ==
    IF HasProduct(combined_scores, entry.product)
    THEN [combined_scores EXCEPT
             ![PositionOf(combined_scores, entry.product)] = entry]
    ELSE Append(combined_scores, entry)

(* Lines 228-236: the entry of every market-basket candidate. *)
RECURSIVE AddMBAScores(_, _, _)
AddMBAScores(mba_recs, combined_scores, mba_weight) ==
    IF mba_recs = <<>> THEN combined_scores
    ELSE LET rec == Head(mba_recs)
             entry == [product |-> rec.product,
                       score |-> RMul(rec.confidence, mba_weight),
                       mba_confidence |-> rec.confidence]
         IN  AddMBAScores(Tail(mba_recs), SetItem(combined_scores, entry),
                          mba_weight)

(* Lines 239-252: every collaborative candidate added to its entry, or     *)
(* given one.                                                              *)
RECURSIVE AddCFScores(_, _, _)
AddCFScores(cf_recs, combined_scores, cf_weight) ==
    IF cf_recs = <<>> THEN combined_scores
    ELSE LET rec == Head(cf_recs)
             cf_score == RMul(rec.similarity, cf_weight)
             entry ==
                 IF HasProduct(combined_scores, rec.product)
                 THEN LET old == combined_scores[
                                     PositionOf(combined_scores, rec.product)]
                      IN  [product |-> old.product,
                           score |-> RAdd(old.score, cf_score),
                           mba_confidence |-> old.mba_confidence,
                           cf_similarity |-> rec.similarity]
                 ELSE [product |-> rec.product,
                       score |-> cf_score,
                       cf_similarity |-> rec.similarity]
         IN  AddCFScores(Tail(cf_recs), SetItem(combined_scores, entry),
                         cf_weight)

CombinedKey(entry) == <<entry.score>>

(* get_recommendations without the sort of line 256 *)
Hybrid_get_recommendations_NoSort(self, product, top_n, order) ==
    LET mba_recs == MBA_get_recommendations(self.mba, product, top_n * 2, order)
        cf_recs == CF_get_product_similarity(self.cf, product, top_n * 2)
    IN  IF cf_recs.raised # "" THEN cf_recs
        ELSE Ret(Take(AddCFScores(cf_recs.value,
                                  AddMBAScores(mba_recs, <<>>, self.mba_weight),
                                  self.cf_weight),
                      top_n))

(* HybridRecommender.get_recommendations *)
Hybrid_get_recommendations(self, product, top_n, order) ==
    LET mba_recs == MBA_get_recommendations(self.mba, product, top_n * 2, order)
        cf_recs == CF_get_product_similarity(self.cf, product, top_n * 2)
    IN  IF cf_recs.raised # "" THEN cf_recs
        ELSE LET combined_scores ==
                     AddCFScores(cf_recs.value,
                                 AddMBAScores(mba_recs, <<>>, self.mba_weight),
                                 self.cf_weight)
             IN  Ret(Take(StableSortDesc(combined_scores, CombinedKey), top_n))

(* What the hybrid recommender is fitted on *)
HybridBasketChoices ==
    <<  <<"Blue Jeans", "Sneakers", "White T-shirt">>,
        <<"Blue Jeans">>  >>

HybridBasketLists == ListsOf(HybridBasketChoices, MaxBaskets)

HybridMatrices ==
    UNION {MatricesOn(columns, {1}) : columns \in ColumnChoices}
        \cup {EmptyMatrix}

hybrid_fit(baskets, user_item_matrix) ==
    /\ \E components \in SVDComponents(hybrid.cf.n_components, user_item_matrix) :
          hybrid' = Hybrid_fit(hybrid, baskets, user_item_matrix, components,
                               hash_order)
    /\ call' = [op |-> "hybrid_fit", baskets |-> baskets,
                user_item_matrix |-> user_item_matrix]
    /\ result' = <<>>
    /\ raised' = CF_fit_raised(hybrid.cf, user_item_matrix)
    /\ UNCHANGED <<file, fit, df, mba, cf, insights, hash_order>>

hybrid_get_recommendations(product, top_n) ==
    /\ call' = [op |-> "hybrid_get_recommendations",
                product |-> product, top_n |-> top_n]
    /\ result' = Hybrid_get_recommendations(hybrid, product, top_n,
                                            hash_order).value
    /\ raised' = Hybrid_get_recommendations(hybrid, product, top_n,
                                            hash_order).raised
    /\ UNCHANGED <<file, fit, df, mba, cf, hybrid, insights, hash_order>>

---------------------------------------------------------------------------
(* BusinessInsights (src/utils/insights.py) *)

(* No BusinessInsights object yet *)
NoInsights ==
    [built |-> FALSE, df |-> NoDataFrame, shares_df |-> FALSE,
     product_stats |-> <<>>, co_occurrence |-> <<>>]

(* len(self.df[self.df['Product'] == product]) *)
TotalPurchases(rows, product) ==
    Cardinality({i \in DOMAIN rows : rows[i].Product = product})

(* The rows of get_product_statistics, by product: the table is built from *)
(* one dict per product and sorted on its TotalPurchases column.           *)
ProductStatistics(rows) ==
    [p \in UniqueProducts(rows) |->
        [TotalPurchases |-> TotalPurchases(rows, p),
         UniqueCustomers |->
             Cardinality({rows[i].CustomerID :
                             i \in {j \in DOMAIN rows : rows[j].Product = p}})]]

(* sort_values('TotalPurchases') on the frame built from an empty list, a  *)
(* frame without columns, raises KeyError.                                 *)
ProductStatisticsRaised(rows) == IF rows = <<>> THEN "KeyError" ELSE ""

(* What __init__ raises: the load of get_product_statistics, then its sort *)
InitRaised ==
    IF LoadRaised # "" THEN LoadRaised ELSE ProductStatisticsRaised(Loaded.rows)

(* BusinessInsights(data_preprocessor): self.df is read from the           *)
(* preprocessor before get_product_statistics loads the file, so it is     *)
(* None when the preprocessor had not loaded yet, and otherwise the very   *)
(* frame object the preprocessor holds.                                    *)
BusinessInsights_init ==
    /\ df' = Loaded
    /\ insights' = IF InitRaised # "" THEN insights
                   ELSE [built |-> TRUE,
                         df |-> df,
                         shares_df |-> df.loaded,
                         product_stats |-> ProductStatistics(df'.rows),
                         co_occurrence |-> CoOccurrence(df'.rows)]
    /\ call' = [op |-> "BusinessInsights"]
    /\ result' = <<>>
    /\ raised' = InitRaised
    /\ UNCHANGED <<file, fit, mba, cf, hybrid, hash_order>>

(* The thresholds of categorize_customer *)
HighValuePurchases == 10
MediumValuePurchases == 5
HighValuePerDay == Rat(1, 2)

CategorizeCustomer_Strict(total_purchases, avg_purchases_per_day) ==
    IF total_purchases > HighValuePurchases
       /\ RLess(HighValuePerDay, avg_purchases_per_day)
    THEN "High Value"
    ELSE IF total_purchases > MediumValuePurchases THEN "Medium Value"
    ELSE "Low Value"

CategorizeCustomer(total_purchases, avg_purchases_per_day) ==
    IF total_purchases >= HighValuePurchases
       /\ RLeq(HighValuePerDay, avg_purchases_per_day)
    THEN "High Value"
    ELSE IF total_purchases >= MediumValuePurchases THEN "Medium Value"
    ELSE "Low Value"

CustomerStats_AllDates(rows) ==
    [c \in {rows[i].CustomerID : i \in DOMAIN rows} |->
        LET total == Cardinality({i \in DOMAIN rows : rows[i].CustomerID = c})
            days == Cardinality({rows[i].Date : i \in DOMAIN rows})
        IN  [TotalPurchases |-> total,
             ActiveDays |-> days,
             AvgPurchasesPerDay |-> Rat(total, days),
             Segment |-> CategorizeCustomer(total, Rat(total, days))]]

(* groupby('CustomerID').agg({'Product': 'count', 'Date': 'nunique'}) with *)
(* the AvgPurchasesPerDay and Segment columns added.                       *)
CustomerStats(rows) ==
    [c \in {rows[i].CustomerID : i \in DOMAIN rows} |->
        LET own == {i \in DOMAIN rows : rows[i].CustomerID = c}
            total == Cardinality(own)
            days == Cardinality({rows[i].Date : i \in own})
        IN  [TotalPurchases |-> total,
             ActiveDays |-> days,
             AvgPurchasesPerDay |-> Rat(total, days),
             Segment |-> CategorizeCustomer(total, Rat(total, days))]]

(* customer_stats['Segment'].value_counts().to_dict() *)
SegmentDistribution(customer_stats) ==
    [s \in {customer_stats[c].Segment : c \in DOMAIN customer_stats} |->
        Cardinality({c \in DOMAIN customer_stats : customer_stats[c].Segment = s})]

Insights_get_customer_segments(ins) ==
    IF ~ins.df.loaded THEN Raise("AttributeError")
    ELSE Ret([segment_distribution |->
                  SegmentDistribution(CustomerStats(ins.df.rows)),
              customer_stats |-> CustomerStats(ins.df.rows)])

get_customer_segments ==
    /\ insights.built
    /\ call' = [op |-> "get_customer_segments"]
    /\ result' = Insights_get_customer_segments(insights).value
    /\ raised' = Insights_get_customer_segments(insights).raised
    /\ UNCHANGED <<file, fit, df, mba, cf, hybrid, insights, hash_order>>

(* The 20 of line 73 and the 10 of line 84 *)
SignificantPercentage == 20
TopInsights == 10

(* round(x, 1) for x >= 0, ties to the even tenth.  The float x of the     *)
(* source is the exact quotient for the totals of this model.              *)
Round1(x) ==
    LET tenths == (x.n * 10) \div x.d
        twice_rest == 2 * ((x.n * 10) % x.d)
    IN  IF twice_rest > x.d \/ (twice_rest = x.d /\ tenths % 2 = 1)
        THEN Rat(tenths + 1, 10)
        ELSE Rat(tenths, 10)

(* (co_purchases / total_purchases_1) * 100 *)
Percentage(co_purchases, total_purchases_1) ==
    Rat(co_purchases * 100, total_purchases_1)

(* The index and the columns of the matrix: sorted(unique products) *)
IndexOrder(co_occurrence) ==
    LET products == {pq[1] : pq \in DOMAIN co_occurrence}
    IN  SortSet(products, LAMBDA p, q : ProductRank(p) < ProductRank(q))

(* The (product1, product2) pairs in the order the two loops visit them *)
LoopPairs(co_occurrence) ==
    LET index == IndexOrder(co_occurrence)
        n == Len(index)
    IN  [k \in 1..(n * n) |-> <<index[((k - 1) \div n) + 1], index[((k - 1) % n) + 1]>>]

(* The pairs that reach line 70: distinct products bought together *)
CoPurchasedPairs(co_occurrence) ==
    SelectSeq(LoopPairs(co_occurrence),
              LAMBDA pq : pq[1] # pq[2] /\ co_occurrence[pq] > 0)

InsightEntry(ins, pq) ==
    [product1 |-> pq[1],
     product2 |-> pq[2],
     co_purchases |-> ins.co_occurrence[pq],
     percentage |-> Round1(Percentage(ins.co_occurrence[pq],
                                      TotalPurchases(ins.df.rows, pq[1])))]

(* The list before the sort: one entry per pair over the threshold *)
SignificantInsights(ins) ==
    LET significant ==
            SelectSeq(CoPurchasedPairs(ins.co_occurrence),
                      LAMBDA pq :
                          RLess(Rat(SignificantPercentage, 1),
                                Percentage(ins.co_occurrence[pq],
                                           TotalPurchases(ins.df.rows, pq[1]))))
    IN  [i \in DOMAIN significant |-> InsightEntry(ins, significant[i])]

PercentageKey(entry) == <<entry.percentage>>

Insights_get_co_purchase_insights_NoSort(ins) ==
    IF CoPurchasedPairs(ins.co_occurrence) # <<>> /\ ~ins.df.loaded
    THEN Raise("TypeError")
    ELSE Ret(Take(SignificantInsights(ins), TopInsights))

(* self.df[...] on line 70 raises TypeError when self.df is None *)
Insights_get_co_purchase_insights(ins) ==
    IF CoPurchasedPairs(ins.co_occurrence) # <<>> /\ ~ins.df.loaded
    THEN Raise("TypeError")
    ELSE Ret(Take(StableSortDesc(SignificantInsights(ins), PercentageKey),
                  TopInsights))

get_co_purchase_insights ==
    /\ insights.built
    /\ call' = [op |-> "get_co_purchase_insights"]
    /\ result' = Insights_get_co_purchase_insights(insights).value
    /\ raised' = Insights_get_co_purchase_insights(insights).raised
    /\ UNCHANGED <<file, fit, df, mba, cf, hybrid, insights, hash_order>>

(* The 5 of line 155 and the 20 of line 168 *)
AffinityThreshold == 5
TopEdges == 20

(* df['Product'].unique(): the products in order of first appearance *)
UniqueInOrder(rows) ==
    LET firsts == SelectSeq([i \in DOMAIN rows |-> i],
                            LAMBDA i : \A j \in 1..(i - 1) :
                                          rows[j].Product # rows[i].Product)
    IN  [k \in DOMAIN firsts |-> rows[firsts[k]].Product]

NetworkEdge(ins, pq) ==
    [source |-> pq[1],
     target |-> pq[2],
     weight |-> ins.co_occurrence[pq],
     strength |-> Rat(ins.co_occurrence[pq], TotalPurchases(ins.df.rows, pq[1]))]

(* network_data before the sort: one edge per pair over the threshold *)
NetworkData(ins) ==
    LET linked == SelectSeq(LoopPairs(ins.co_occurrence),
                            LAMBDA pq : pq[1] # pq[2]
                                        /\ ins.co_occurrence[pq] > AffinityThreshold)
    IN  [i \in DOMAIN linked |-> NetworkEdge(ins, linked[i])]

StrengthKey(edge) == <<edge.strength>>

Insights_get_product_affinity_network_NoSort(ins) ==
    IF ~ins.df.loaded THEN Raise("TypeError")
    ELSE Ret([nodes |-> UniqueInOrder(ins.df.rows),
              edges |-> Take(NetworkData(ins), TopEdges)])

(* self.df[...] on lines 160 and 167 raises TypeError when self.df is None *)
Insights_get_product_affinity_network(ins) ==
    IF ~ins.df.loaded THEN Raise("TypeError")
    ELSE Ret([nodes |-> UniqueInOrder(ins.df.rows),
              edges |-> Take(StableSortDesc(NetworkData(ins), StrengthKey),
                             TopEdges)])

get_product_affinity_network ==
    /\ insights.built
    /\ call' = [op |-> "get_product_affinity_network"]
    /\ result' = Insights_get_product_affinity_network(insights).value
    /\ raised' = Insights_get_product_affinity_network(insights).raised
    /\ UNCHANGED <<file, fit, df, mba, cf, hybrid, insights, hash_order>>

(* price_mapping of lines 31-35, for the products of this model *)
PriceMapping ==
    [p \in {"Blue Jeans", "Hoodie", "Leather Jacket", "Sneakers", "Sunglasses",
            "White T-shirt"} |->
        CASE p = "White T-shirt" -> 25
          [] p = "Blue Jeans" -> 60
          [] p = "Sneakers" -> 80
          [] p = "Leather Jacket" -> 200
          [] p = "Sunglasses" -> 50
          [] p = "Hoodie" -> 45]

(* round(x, 2) for x >= 0, ties to the even hundredth *)
Round2(x) ==
    LET hundredths == (x.n * 100) \div x.d
        twice_rest == 2 * ((x.n * 100) % x.d)
    IN  IF twice_rest > x.d \/ (twice_rest = x.d /\ hundredths % 2 = 1)
        THEN Rat(hundredths + 1, 100)
        ELSE Rat(hundredths, 100)

Kpis(rows) ==
    LET ngroups == Len(GroupBaskets(rows))
        total_revenue == SumSeq([i \in DOMAIN rows |-> PriceMapping[rows[i].Product]])
        dates == {rows[i].Date : i \in DOMAIN rows}
    IN  [total_transactions |-> Len(rows),
         unique_customers |-> Cardinality({rows[i].CustomerID : i \in DOMAIN rows}),
         unique_products |-> Cardinality(UniqueProducts(rows)),
         avg_basket_size |-> Round2(Rat(Len(rows), ngroups)),
         total_revenue |-> total_revenue,
         avg_order_value |-> Round2(Rat(total_revenue, ngroups)),
         date_range |-> <<CHOOSE d \in dates : \A e \in dates : d <= e,
                          CHOOSE d \in dates : \A e \in dates : e <= d>>]

(* len(self.df) on line 22 raises TypeError when self.df is None *)
Insights_get_kpis(ins) ==
    IF ~ins.df.loaded THEN Raise("TypeError") ELSE Ret(Kpis(ins.df.rows))

(* self.df['Price'] = ... on line 37 adds a column to the frame self.df    *)
(* names, which is the preprocessor's frame as long as the two share it.   *)
get_kpis ==
    /\ insights.built
    /\ insights' = IF Insights_get_kpis(insights).raised # "" THEN insights
                   ELSE [insights EXCEPT !.df.columns = @ \cup {"Price"}]
    /\ df' = IF Insights_get_kpis(insights).raised = "" /\ insights.shares_df
             THEN [df EXCEPT !.columns = @ \cup {"Price"}]
             ELSE df
    /\ call' = [op |-> "get_kpis"]
    /\ result' = Insights_get_kpis(insights).value
    /\ raised' = Insights_get_kpis(insights).raised
    /\ UNCHANGED <<file, fit, mba, cf, hybrid, hash_order>>

(* product_stats.head(top_n): the table was sorted on TotalPurchases by    *)
(* sort_values, whose default quicksort leaves the order of products of    *)
(* equal TotalPurchases open; every order it can give is a choice.         *)
TopProductChoices(ins, top_n) ==
    LET products == DOMAIN ins.product_stats
        total(p) == ins.product_stats[p].TotalPurchases
        k == IF top_n < Cardinality(products) THEN top_n ELSE Cardinality(products)
    IN  {order \in [1..k -> products] :
            /\ \A i, j \in 1..k : i < j =>
                   order[i] # order[j] /\ total(order[i]) >= total(order[j])
            /\ \A p \in products \ Range(order) :
                   \A i \in 1..k : total(p) <= total(order[i])}

TopProducts(ins, order) ==
    [i \in DOMAIN order |->
        [Product |-> order[i],
         TotalPurchases |-> ins.product_stats[order[i]].TotalPurchases,
         UniqueCustomers |-> ins.product_stats[order[i]].UniqueCustomers]]

get_top_products ==
    /\ insights.built
    /\ \E top_n \in TopNs :
           \E order \in TopProductChoices(insights, top_n) :
               /\ call' = [op |-> "get_top_products", top_n |-> top_n]
               /\ result' = TopProducts(insights, order)
    /\ raised' = ""
    /\ UNCHANGED <<file, fit, df, mba, cf, hybrid, insights, hash_order>>

(* The calendar, scaled: a season lasts SeasonDays days and day 1 is the   *)
(* first day of winter.                                                    *)
SeasonDays == 2

Seasons == <<"Winter", "Spring", "Summer", "Fall">>

SeasonOf(date) == Seasons[(((date - 1) \div SeasonDays) % 4) + 1]

(* groupby(['Season', 'Product']).size() *)
SeasonalPurchases(rows, season, product) ==
    Cardinality({i \in DOMAIN rows :
                    SeasonOf(rows[i].Date) = season /\ rows[i].Product = product})

(* idxmax over a season's rows, which groupby left sorted by product: the  *)
(* first product in string order with the most purchases.                  *)
SeasonalChampion(rows, season) ==
    LET bought == {p \in UniqueProducts(rows) : SeasonalPurchases(rows, season, p) > 0}
        top == CHOOSE p \in bought :
                   \A q \in bought :
                       \/ SeasonalPurchases(rows, season, q)
                              < SeasonalPurchases(rows, season, p)
                       \/ /\ SeasonalPurchases(rows, season, q)
                                 = SeasonalPurchases(rows, season, p)
                          /\ ProductRank(p) <= ProductRank(q)
    IN  [product |-> top, purchases |-> SeasonalPurchases(rows, season, top)]

SeasonalInsights(rows) ==
    [seasonal_champions |->
         [season \in {SeasonOf(rows[i].Date) : i \in DOMAIN rows} |->
             SeasonalChampion(rows, season)],
     seasonal_trends |->
         [p \in UniqueProducts(rows) |->
             [spring |-> SeasonalPurchases(rows, "Spring", p),
              summer |-> SeasonalPurchases(rows, "Summer", p),
              fall |-> SeasonalPurchases(rows, "Fall", p),
              winter |-> SeasonalPurchases(rows, "Winter", p)]]]

(* self.df.groupby on line 88 raises AttributeError when self.df is None *)
Insights_get_seasonal_insights(ins) ==
    IF ~ins.df.loaded THEN Raise("AttributeError")
    ELSE Ret(SeasonalInsights(ins.df.rows))

get_seasonal_insights ==
    /\ insights.built
    /\ call' = [op |-> "get_seasonal_insights"]
    /\ result' = Insights_get_seasonal_insights(insights).value
    /\ raised' = Insights_get_seasonal_insights(insights).raised
    /\ UNCHANGED <<file, fit, df, mba, cf, hybrid, insights, hash_order>>

(* Transaction files for the insights: a plan is a list of entries, each   *)
(* one customer buying the same products on `days` days in a row.          *)
MaxPlan == 2

PlanEntry(customer, days, products) ==
    [customer |-> customer, days |-> days, products |-> products]

PlanEntries ==
    {PlanEntry(2001, 1, <<"Blue Jeans", "Leather Jacket", "Sneakers", "White T-shirt">>),
     PlanEntry(2001, 6, <<"Blue Jeans", "Hoodie", "Leather Jacket", "Sneakers",
                          "Sunglasses", "White T-shirt">>),
     PlanEntry(2001, 2, <<"Blue Jeans", "Leather Jacket">>),
     PlanEntry(2001, 4, <<"Blue Jeans">>),
     PlanEntry(2001, 5, <<"White T-shirt">>),
     PlanEntry(2002, 3, <<"Sneakers", "White T-shirt", "Blue Jeans">>),
     PlanEntry(2002, 5, <<"Blue Jeans", "Sneakers">>),
     PlanEntry(2002, 8, <<"Blue Jeans", "Sneakers">>),
     PlanEntry(2002, 12, <<"Blue Jeans">>)}

EntryRows(entry, first_day) ==
    LET n == Len(entry.products)
    IN  [i \in 1..(entry.days * n) |->
            [CustomerID |-> entry.customer,
             Product |-> entry.products[((i - 1) % n) + 1],
             Date |-> first_day + ((i - 1) \div n)]]

RECURSIVE PlanRows(_, _)
PlanRows(plan, first_day) ==
    IF plan = <<>> THEN <<>>
    ELSE EntryRows(Head(plan), first_day)
             \o PlanRows(Tail(plan), first_day + Head(plan).days)

Plans == UNION {[1..k -> PlanEntries] : k \in 1..MaxPlan}

InsightFiles ==
    {MissingFile, CSV(<<>>)} \cup {CSV(PlanRows(plan, 1)) : plan \in Plans}

---------------------------------------------------------------------------
(* Specifications *)

(* The files the preprocessor is given *)
Files == {MissingFile, EmptyFile} \cup {CSV(rows) : rows \in Datasets}

(* The data preprocessor alone, over a file that does not change *)
InitData ==
    /\ file \in Files
    /\ df = NoDataFrame
    /\ mba = <<>>
    /\ cf = <<>>
    /\ hybrid = <<>>
    /\ fit = NoFit
    /\ insights = NoInsights
    /\ hash_order = <<>>
    /\ call = NoCall
    /\ result = <<>>
    /\ raised = ""

NextData ==
    \/ load_data
    \/ get_co_occurrence_matrix
    \/ get_basket_data

SpecData == InitData /\ [][NextData]_vars

(* A transaction file of n (customer, date) groups of two purchases each,  *)
(* one group per day.                                                      *)
ManyGroups(n) ==
    [i \in 1..(2 * n) |->
        [CustomerID |-> CHOOSE c \in CustomerIDs : TRUE,
         Product |-> IF i % 2 = 1 THEN "Blue Jeans" ELSE "Sneakers",
         Date |-> (i + 1) \div 2]]

(* The basket list alone, over the small files and over one file with     *)
(* more multi-item groups than line 67 keeps.                              *)
InitBaskets ==
    /\ file \in Files \cup {CSV(ManyGroups(BasketLimit + 1))}
    /\ df = NoDataFrame
    /\ mba = <<>>
    /\ cf = <<>>
    /\ hybrid = <<>>
    /\ fit = NoFit
    /\ insights = NoInsights
    /\ hash_order = <<>>
    /\ call = NoCall
    /\ result = <<>>
    /\ raised = ""

NextBaskets ==
    \/ load_data
    \/ get_basket_data

SpecBaskets == InitBaskets /\ [][NextBaskets]_vars

(* A preprocessor and a BusinessInsights built on it *)
InitInsights ==
    /\ file \in InsightFiles
    /\ df = NoDataFrame
    /\ mba = <<>>
    /\ cf = <<>>
    /\ hybrid = <<>>
    /\ fit = NoFit
    /\ insights = NoInsights
    /\ hash_order = <<>>
    /\ call = NoCall
    /\ result = <<>>
    /\ raised = ""

NextInsights ==
    \/ load_data
    \/ BusinessInsights_init
    \/ get_customer_segments
    \/ get_co_purchase_insights
    \/ get_product_affinity_network

SpecInsights == InitInsights /\ [][NextInsights]_vars

(* The same with every query of BusinessInsights *)
NextInsightQueries ==
    \/ load_data
    \/ BusinessInsights_init
    \/ get_kpis
    \/ get_top_products
    \/ get_co_purchase_insights
    \/ get_seasonal_insights
    \/ get_customer_segments
    \/ get_product_affinity_network

SpecInsightQueries == InitInsights /\ [][NextInsightQueries]_vars

(* A market-basket analyzer alone *)
InitMBA ==
    /\ file = MissingFile
    /\ df = NoDataFrame
    /\ mba \in {NewMBA(s, c) : s \in SupportChoices, c \in ConfidenceChoices}
    /\ cf = <<>>
    /\ hybrid = <<>>
    /\ fit = NoFit
    /\ insights = NoInsights
    /\ hash_order \in HashOrders
    /\ call = NoCall
    /\ result = <<>>
    /\ raised = ""

NextMBA ==
    \/ \E baskets \in BasketLists : mba_fit(baskets)
    \/ \E product \in Products, top_n \in TopNs :
          mba_get_recommendations(product, top_n)
    \/ \E basket \in QueryBaskets, top_n \in TopNs :
          mba_get_basket_recommendations(basket, top_n)

SpecMBA == InitMBA /\ [][NextMBA]_vars

(* A collaborative-filtering recommender alone *)
InitCF ==
    /\ file = MissingFile
    /\ df = NoDataFrame
    /\ mba = <<>>
    /\ cf \in {NewCF(n) : n \in ComponentChoices}
    /\ hybrid = <<>>
    /\ fit = NoFit
    /\ insights = NoInsights
    /\ hash_order = <<>>
    /\ call = NoCall
    /\ result = <<>>
    /\ raised = ""

NextCF ==
    \/ \E user_item_matrix \in Matrices : cf_fit(user_item_matrix)
    \/ \E user_id \in UserIDs \cup UnknownUserIDs, top_n \in TopNs :
          cf_get_user_recommendations(user_id, top_n)
    \/ \E product \in Products, top_n \in TopNs :
          cf_get_product_similarity(product, top_n)

SpecCF == InitCF /\ [][NextCF]_vars

(* A collaborative-filtering recommender whose fit runs line by line      *)
(* while queries come in.                                                  *)
NextFitSteps ==
    \/ \E user_item_matrix \in HybridMatrices : cf_fit_line134(user_item_matrix)
    \/ cf_fit_line135
    \/ cf_fit_line139
    \/ cf_fit_line140
    \/ \E user_id \in UserIDs \cup UnknownUserIDs, top_n \in TopNs :
          cf_get_user_recommendations(user_id, top_n)
    \/ \E product \in Products, top_n \in TopNs :
          cf_get_product_similarity(product, top_n)

SpecFitSteps == InitCF /\ [][NextFitSteps]_vars

(* A hybrid recommender alone, with the weights of __init__ (0.6, 0.4) *)
InitHybrid ==
    /\ file = MissingFile
    /\ df = NoDataFrame
    /\ mba = <<>>
    /\ cf = <<>>
    /\ hybrid = NewHybrid(Rat(6, 10), Rat(4, 10))
    /\ fit = NoFit
    /\ insights = NoInsights
    /\ hash_order \in HashOrders
    /\ call = NoCall
    /\ result = <<>>
    /\ raised = ""

NextHybrid ==
    \/ \E baskets \in HybridBasketLists, user_item_matrix \in HybridMatrices :
          hybrid_fit(baskets, user_item_matrix)
    \/ \E product \in Products, top_n \in TopNs :
          hybrid_get_recommendations(product, top_n)

SpecHybrid == InitHybrid /\ [][NextHybrid]_vars

(* Any one of the three models, with its fits and its queries *)
InitModels == InitMBA \/ InitCF \/ InitHybrid

NextModels ==
    \/ mba # <<>> /\ \E baskets \in HybridBasketLists : mba_fit(baskets)
    \/ cf # <<>> /\ \E user_item_matrix \in HybridMatrices : cf_fit(user_item_matrix)
    \/ hybrid # <<>>
          /\ \E baskets \in ListsOf(HybridBasketChoices, 1),
                user_item_matrix \in HybridMatrices :
                 hybrid_fit(baskets, user_item_matrix)
    \/ mba # <<>>
          /\ \E product \in Products, top_n \in TopNs :
                 mba_get_recommendations(product, top_n)
    \/ mba # <<>>
          /\ \E basket \in QueryBaskets, top_n \in TopNs :
                 mba_get_basket_recommendations(basket, top_n)
    \/ cf # <<>>
          /\ \E user_id \in UserIDs \cup UnknownUserIDs, top_n \in TopNs :
                 cf_get_user_recommendations(user_id, top_n)
    \/ cf # <<>>
          /\ \E product \in Products, top_n \in TopNs :
                 cf_get_product_similarity(product, top_n)
    \/ hybrid # <<>>
          /\ \E product \in Products, top_n \in TopNs :
                 hybrid_get_recommendations(product, top_n)

SpecModels == InitModels /\ [][NextModels]_vars

---------------------------------------------------------------------------
(* Properties of the co-occurrence matrix (SpecData) *)

BasketKeys(rows) == {<<rows[i].CustomerID, rows[i].Date>> : i \in DOMAIN rows}

(* The (customer, date) baskets of `rows` that hold product p *)
BasketsHolding(rows, p) ==
    {k \in BasketKeys(rows) :
        \E i \in DOMAIN rows :
            <<rows[i].CustomerID, rows[i].Date>> = k /\ rows[i].Product = p}

(* C1: the matrix get_co_occurrence_matrix returns is symmetric and has a  *)
(* zero diagonal, for every dataset, rows that repeat a (customer,         *)
(* product, date) included.                                                *)
C1_SymmetricZeroDiagonal ==
    call.op = "get_co_occurrence_matrix" =>
        \A a, b \in UniqueProducts(df.rows) :
            /\ result[<<a, b>>] = result[<<b, a>>]
            /\ result[<<a, a>>] = 0

(* C2: for distinct products A and B, entry (A, B) of the matrix is the    *)
(* number of (customer, date) baskets that hold both A and B.              *)
C2_CountsBaskets ==
    call.op = "get_co_occurrence_matrix" =>
        \A a, b \in UniqueProducts(df.rows) :
            a # b =>
                result[<<a, b>>] =
                    Cardinality(BasketsHolding(df.rows, a)
                                    \cap BasketsHolding(df.rows, b))

(* C14: load_data fails with an error when the file is missing or holds   *)
(* no transaction rows; it does not return an empty dataset and does not   *)
(* leave the preprocessor holding one.                                     *)
C14_NoEmptyDataset ==
    (call.op = "load_data" /\ (file.kind # "csv" \/ file.rows = <<>>)) =>
        /\ raised # ""
        /\ ~(df.loaded /\ df.rows = <<>>)

(* The products of (customer, date) group k, in row order *)
GroupProducts(rows, k) ==
    LET group == SelectSeq(rows, LAMBDA r : <<r.CustomerID, r.Date>> = k)
    IN  [i \in DOMAIN group |-> group[i].Product]

(* The (customer, date) groups of more than one purchase *)
MultiItemGroups(rows) ==
    {k \in BasketKeys(rows) :
        Cardinality({i \in DOMAIN rows :
                        <<rows[i].CustomerID, rows[i].Date>> = k}) > 1}

(* C16: get_basket_data returns exactly one basket for each (customer,     *)
(* date) group of more than one purchase, holding the group's products,    *)
(* and no basket of a single item, whatever the number of groups.          *)
C16_OneBasketPerMultiItemGroup ==
    (call.op = "get_basket_data" /\ raised = "") =>
        LET multi == MultiItemGroups(df.rows)
        IN  /\ Len(result) = Cardinality(multi)
            /\ \A i \in DOMAIN result : Len(result[i]) > 1
            /\ \A k \in multi :
                   Cardinality({i \in DOMAIN result :
                                   result[i] = GroupProducts(df.rows, k)})
                   = Cardinality({j \in multi :
                                     GroupProducts(df.rows, j)
                                     = GroupProducts(df.rows, k)})

---------------------------------------------------------------------------
(* Properties of BusinessInsights (SpecInsights) *)

(* The customers of `rows`, and a customer's purchases and active days *)
CustomersOf(rows) == {rows[i].CustomerID : i \in DOMAIN rows}

PurchasesOf(rows, c) ==
    Cardinality({i \in DOMAIN rows : rows[i].CustomerID = c})

ActiveDaysOf(rows, c) ==
    Cardinality({rows[i].Date : i \in {j \in DOMAIN rows : rows[j].CustomerID = c}})

(* C19: get_customer_segments gives every customer High Value exactly when *)
(* the customer has at least 10 purchases and at least 0.5 purchases per   *)
(* active day, otherwise Medium Value exactly when the customer has at     *)
(* least 5 purchases, otherwise Low Value; 12 purchases over 20 active     *)
(* days are High Value, 6 over 20 Medium Value, 3 purchases Low Value.     *)
C19_SegmentRule ==
    /\ CategorizeCustomer(12, Rat(12, 20)) = "High Value"
    /\ CategorizeCustomer(6, Rat(6, 20)) = "Medium Value"
    /\ \A days \in 1..3 : CategorizeCustomer(3, Rat(3, days)) = "Low Value"
    /\ (call.op = "get_customer_segments" /\ raised = "") =>
           /\ DOMAIN result.customer_stats = CustomersOf(insights.df.rows)
           /\ \A c \in CustomersOf(insights.df.rows) :
                  LET total == PurchasesOf(insights.df.rows, c)
                      days == ActiveDaysOf(insights.df.rows, c)
                      segment == result.customer_stats[c].Segment
                  IN  /\ segment = "High Value" <=> (total >= 10 /\ 2 * total >= days)
                      /\ segment = "Medium Value" <=>
                             (~(total >= 10 /\ 2 * total >= days) /\ total >= 5)
                      /\ segment = "Low Value" <=> total < 5

(* A segmentation with a customer of exactly 10 purchases, High Value, and *)
(* a customer of exactly 5, Medium Value.                                  *)
C19_Witness ==
    /\ call.op = "get_customer_segments"
    /\ raised = ""
    /\ \E c, d \in DOMAIN result.customer_stats :
           /\ result.customer_stats[c].TotalPurchases = 10
           /\ result.customer_stats[c].Segment = "High Value"
           /\ result.customer_stats[d].TotalPurchases = 5
           /\ result.customer_stats[d].Segment = "Medium Value"

(* C26: in get_customer_segments ActiveDays never exceeds TotalPurchases,  *)
(* so AvgPurchasesPerDay is at least 1, the test against 0.5 is true for   *)
(* every customer, and a customer is High Value exactly when               *)
(* TotalPurchases is at least 10.                                          *)
C26_HighValueByPurchasesAlone ==
    (call.op = "get_customer_segments" /\ raised = "") =>
        \A c \in DOMAIN result.customer_stats :
            LET stats == result.customer_stats[c]
            IN  /\ stats.ActiveDays = ActiveDaysOf(insights.df.rows, c)
                /\ stats.ActiveDays <= stats.TotalPurchases
                /\ RLeq(Rat(1, 1), stats.AvgPurchasesPerDay)
                /\ RLeq(HighValuePerDay, stats.AvgPurchasesPerDay)
                /\ stats.Segment = "High Value" <=> stats.TotalPurchases >= 10

(* A segmentation with a High Value customer of several purchases a day    *)
(* and another customer of one purchase a day who is not High Value.       *)
C26_Witness ==
    /\ call.op = "get_customer_segments"
    /\ raised = ""
    /\ \E c, d \in DOMAIN result.customer_stats :
           /\ result.customer_stats[c].ActiveDays
                  < result.customer_stats[c].TotalPurchases
           /\ result.customer_stats[c].Segment = "High Value"
           /\ result.customer_stats[d].AvgPurchasesPerDay = Rat(1, 1)
           /\ result.customer_stats[d].Segment # "High Value"

(* The percentage an insight reports for the pair pq *)
ReportedPercentage(ins, pq) ==
    Round1(Percentage(ins.co_occurrence[pq], TotalPurchases(ins.df.rows, pq[1])))

(* The ordered pairs of distinct products whose co-occurrence count is     *)
(* more than 20% of the first product's purchases.                         *)
QualifyingPairs(ins) ==
    {pq \in DOMAIN ins.co_occurrence :
        /\ pq[1] # pq[2]
        /\ 100 * ins.co_occurrence[pq] > 20 * TotalPurchases(ins.df.rows, pq[1])}

ReturnedPairs(entries) ==
    {<<entries[i].product1, entries[i].product2>> : i \in DOMAIN entries}

(* C20: get_co_purchase_insights returns at most 10 entries, each an       *)
(* ordered pair of distinct products whose co-occurrence count is more     *)
(* than 20% of product1's purchases, in non-increasing order of the        *)
(* percentage reported, and no pair left out has a higher percentage than  *)
(* a pair returned; count 8 of total 20 qualifies with 40%.                *)
C20_TopCoPurchases ==
    /\ RLess(Rat(SignificantPercentage, 1), Percentage(8, 20))
    /\ Round1(Percentage(8, 20)) = Rat(40, 1)
    /\ (call.op = "get_co_purchase_insights" /\ raised = "") =>
           /\ Len(result) <= 10
           /\ \A i \in DOMAIN result :
                  LET pq == <<result[i].product1, result[i].product2>>
                  IN  /\ pq \in QualifyingPairs(insights)
                      /\ result[i].co_purchases = insights.co_occurrence[pq]
                      /\ result[i].percentage = ReportedPercentage(insights, pq)
           /\ \A i, j \in DOMAIN result :
                  i < j => RLeq(result[j].percentage, result[i].percentage)
           /\ \A pq \in QualifyingPairs(insights) \ ReturnedPairs(result) :
                  \A i \in DOMAIN result :
                      RLeq(ReportedPercentage(insights, pq), result[i].percentage)

(* Ten insights of more than one percentage, with a qualifying pair left   *)
(* out.                                                                    *)
C20_Witness ==
    /\ call.op = "get_co_purchase_insights"
    /\ raised = ""
    /\ Len(result) = 10
    /\ RLess(result[10].percentage, result[1].percentage)
    /\ QualifyingPairs(insights) \ ReturnedPairs(result) # {}

(* The strength of the edge pq: its count over the source's purchases *)
EdgeStrength(ins, pq) ==
    Rat(ins.co_occurrence[pq], TotalPurchases(ins.df.rows, pq[1]))

(* The ordered pairs of distinct products bought together more than 5      *)
(* times.                                                                  *)
QualifyingEdges(ins) ==
    {pq \in DOMAIN ins.co_occurrence : pq[1] # pq[2] /\ ins.co_occurrence[pq] > 5}

ReturnedEdges(edges) ==
    {<<edges[i].source, edges[i].target>> : i \in DOMAIN edges}

(* C21: get_product_affinity_network returns at most 20 edges, each        *)
(* between two distinct products whose co-occurrence count is above 5,     *)
(* with that count as weight and the count over the source's purchases as  *)
(* strength, in non-increasing order of strength, and no qualifying edge   *)
(* left out is stronger than an edge returned.                             *)
C21_TopEdges ==
    (call.op = "get_product_affinity_network" /\ raised = "") =>
        /\ Len(result.edges) <= 20
        /\ \A i \in DOMAIN result.edges :
               LET pq == <<result.edges[i].source, result.edges[i].target>>
               IN  /\ pq \in QualifyingEdges(insights)
                   /\ result.edges[i].weight = insights.co_occurrence[pq]
                   /\ result.edges[i].strength = EdgeStrength(insights, pq)
        /\ \A i, j \in DOMAIN result.edges :
               i < j => RLeq(result.edges[j].strength, result.edges[i].strength)
        /\ \A pq \in QualifyingEdges(insights) \ ReturnedEdges(result.edges) :
               \A i \in DOMAIN result.edges :
                   RLeq(EdgeStrength(insights, pq), result.edges[i].strength)

(* Twenty edges returned and a weaker qualifying edge left out *)
C21_Witness ==
    /\ call.op = "get_product_affinity_network"
    /\ raised = ""
    /\ Len(result.edges) = 20
    /\ \E pq \in QualifyingEdges(insights) \ ReturnedEdges(result.edges) :
           RLess(EdgeStrength(insights, pq), result.edges[20].strength)

InsightQueries ==
    {"get_kpis", "get_top_products", "get_co_purchase_insights",
     "get_seasonal_insights", "get_customer_segments",
     "get_product_affinity_network"}

(* C22: no query of BusinessInsights changes the dataset the preprocessor  *)
(* holds (its rows and its columns) or the co-occurrence matrix the        *)
(* insights object holds.                                                  *)
C22_QueriesReadOnly ==
    [][call'.op \in InsightQueries =>
          /\ df' = df
          /\ insights'.co_occurrence = insights.co_occurrence]_vars

---------------------------------------------------------------------------
(* Properties of MarketBasketAnalyzer (SpecMBA) *)

(* The fraction of the baskets that hold every item of `items` *)
BasketSupport(baskets, items) ==
    Rat(Cardinality({i \in DOMAIN baskets : items \subseteq Range(baskets[i])}),
        Len(baskets))

(* C3: after fit, every rule has confidence >= min_confidence, the itemset *)
(* antecedent + consequent of every rule has support >= min_support, and   *)
(* every frequent itemset has support >= min_support, support and          *)
(* confidence being those of the fitted baskets.                           *)
C3_Thresholds ==
    call.op = "mba_fit" =>
        /\ \A i \in DOMAIN mba.frequent_itemsets :
              RLeq(mba.min_support,
                   BasketSupport(call.baskets, mba.frequent_itemsets[i].itemsets))
        /\ \A i \in DOMAIN mba.rules :
              LET r == mba.rules[i]
                  both == r.antecedents \cup r.consequents
              IN  /\ RLeq(mba.min_confidence, r.confidence)
                  /\ r.confidence =
                         RDiv(BasketSupport(call.baskets, both),
                              BasketSupport(call.baskets, r.antecedents))
                  /\ RLeq(mba.min_support, BasketSupport(call.baskets, both))

(* A fit that keeps a rule, drops an itemset for its support and drops a   *)
(* rule for its confidence.                                                *)
C3_Witness ==
    /\ call.op = "mba_fit"
    /\ Len(mba.rules) > 0
    /\ \E S \in (SUBSET EncoderColumns(call.baskets)) \ {{}} :
          RLess(BasketSupport(call.baskets, S), mba.min_support)
    /\ \E i, j \in DOMAIN mba.frequent_itemsets :
          LET A == mba.frequent_itemsets[i].itemsets
              T == mba.frequent_itemsets[j].itemsets
          IN  /\ A \subseteq T
              /\ A # T
              /\ RLess(RDiv(BasketSupport(call.baskets, T),
                            BasketSupport(call.baskets, A)),
                       mba.min_confidence)

C5_AtMostTopN ==
    (call.op = "mba_get_recommendations" /\ mba.fitted) =>
        /\ Len(result) <= call.top_n
        /\ \A i \in DOMAIN result : result[i].product # call.product

(* A query that more rules answer than top_n lets through. *)
C5_Witness ==
    /\ call.op = "mba_get_recommendations"
    /\ mba.fitted
    /\ call.top_n >= 1
    /\ Len(result) = call.top_n
    /\ Len(ProductRules(mba.rules, call.product)) > call.top_n

(* C6: on a fitted analyzer, get_basket_recommendations returns no product *)
(* of the basket and no product twice, in either pass.                     *)
C6_NoBasketProductNoRepeat ==
    (call.op = "mba_get_basket_recommendations" /\ mba.fitted) =>
        /\ \A i \in DOMAIN result : result[i].product \notin Range(call.basket)
        /\ \A i, j \in DOMAIN result :
              i # j => result[i].product # result[j].product

(* A query answered by the second pass, in which a rule is passed over     *)
(* because its product is already recommended.                             *)
C6_Witness ==
    /\ call.op = "mba_get_basket_recommendations"
    /\ mba.fitted
    /\ Len(result) >= 1
    /\ Len(result) < call.top_n
    /\ \A i \in DOMAIN mba.rules :
          ~(Range(call.basket) \subseteq mba.rules[i].antecedents)
    /\ \E i, j \in DOMAIN mba.rules :
          /\ i # j
          /\ mba.rules[i].antecedents \cap Range(call.basket) # {}
          /\ mba.rules[j].antecedents \cap Range(call.basket) # {}
          /\ First(hash_order, mba.rules[i].consequents) = result[1].product
          /\ First(hash_order, mba.rules[j].consequents) = result[1].product

(* C7: when some rule's antecedent holds the whole basket, every           *)
(* recommendation of get_basket_recommendations comes from such a rule.    *)
C7_PassesNotBlended ==
    (call.op = "mba_get_basket_recommendations" /\ mba.fitted) =>
        ((\E r \in DOMAIN mba.rules :
              Range(call.basket) \subseteq mba.rules[r].antecedents)
            => \A i \in DOMAIN result :
                   Range(call.basket) \subseteq result[i].antecedents)

(* A query answered by the first pass, while a rule that only shares an   *)
(* item with the basket offers a product outside the basket with a         *)
(* confidence and a lift no lower than those of the entry returned.        *)
C7_Witness ==
    /\ call.op = "mba_get_basket_recommendations"
    /\ mba.fitted
    /\ Len(result) >= 1
    /\ \A i \in DOMAIN result :
          Range(call.basket) \subseteq result[i].antecedents
    /\ \E r \in DOMAIN mba.rules :
          /\ mba.rules[r].antecedents \cap Range(call.basket) # {}
          /\ ~(Range(call.basket) \subseteq mba.rules[r].antecedents)
          /\ First(hash_order, mba.rules[r].consequents) \notin Range(call.basket)
          /\ RLeq(result[1].confidence, mba.rules[r].confidence)
          /\ RLeq(result[1].lift, mba.rules[r].lift)

(* What a fresh analyzer with the thresholds of `self` holds after one fit *)
(* on `baskets`, computed without the tables.                              *)
FreshItemsets(self, baskets) ==
    Apriori(TransactionEncoder(baskets), EncoderColumns(baskets),
            self.min_support)

FreshRules(self, baskets, order) ==
    IF Len(FreshItemsets(self, baskets)) > 0
    THEN AssociationRules(FreshItemsets(self, baskets), self.min_confidence,
                          order)
    ELSE <<>>

(* C11: after any sequence of fit calls the frequent itemsets and the      *)
(* rules are those of a fresh analyzer with the same thresholds fitted     *)
(* once on the baskets of the last call.                                   *)
C11_FitReplaces ==
    call.op = "mba_fit" =>
        /\ mba.fitted
        /\ mba.frequent_itemsets = FreshItemsets(mba, call.baskets)
        /\ mba.rules = FreshRules(mba, call.baskets, hash_order)

(* A fit on an analyzer that held more rules than the new baskets give. *)
C11_Witness ==
    /\ call.op = "mba_fit"
    /\ Len(mba.rules) >= 1
    /\ call.rules_before > Len(mba.rules)

(* No set of products is in min_support of the baskets *)
NoItemsetReaches(baskets, min_support) ==
    \A S \in (SUBSET EncoderColumns(baskets)) \ {{}} :
        RLess(BasketSupport(baskets, S), min_support)

(* No rule over a set that reaches min_support reaches min_confidence *)
NoRuleReaches(baskets, min_support, min_confidence) ==
    \A T \in (SUBSET EncoderColumns(baskets)) \ {{}} :
        RLeq(min_support, BasketSupport(baskets, T)) =>
            \A A \in (SUBSET T) \ {{}, T} :
                RLess(RDiv(BasketSupport(baskets, T), BasketSupport(baskets, A)),
                      min_confidence)

(* C15: when no itemset reaches min_support, or no rule min_confidence,    *)
(* fit completes without error and leaves an empty rule set; on an empty   *)
(* rule set get_recommendations and get_basket_recommendations return an   *)
(* empty list without error, whatever their arguments.                     *)
C15_EmptyRules ==
    /\ call.op = "mba_fit" =>
          /\ raised = ""
          /\ mba.fitted
          /\ (\/ NoItemsetReaches(call.baskets, mba.min_support)
              \/ NoRuleReaches(call.baskets, mba.min_support,
                               mba.min_confidence))
                => mba.rules = <<>>
    /\ (/\ call.op \in {"mba_get_recommendations",
                         "mba_get_basket_recommendations"}
        /\ mba.fitted
        /\ mba.rules = <<>>) =>
          (result = <<>> /\ raised = "")

(* A fit on baskets none of whose products reaches min_support, on an      *)
(* analyzer that held rules.                                               *)
C15_Witness ==
    /\ call.op = "mba_fit"
    /\ Len(call.baskets) >= 1
    /\ call.rules_before >= 1
    /\ NoItemsetReaches(call.baskets, mba.min_support)
    /\ mba.rules = <<>>

(* a ranks above b: more confidence, or as much and more lift *)
RanksAbove(a, b) ==
    \/ RLess(b.confidence, a.confidence)
    \/ a.confidence = b.confidence /\ RLess(b.lift, a.lift)

(* The positions of the rules whose antecedent holds P *)
RulesFor(P) == {i \in DOMAIN mba.rules : P \in mba.rules[i].antecedents}

(* C17: on a fitted analyzer get_recommendations(P, top_n) returns one     *)
(* entry for each of the first top_n rules whose antecedent holds P,       *)
(* ranked by confidence and then lift, both descending: exactly top_n      *)
(* entries when that many rules exist, all of the rules otherwise, and no  *)
(* rule left out ranks above a rule returned.                              *)
C17_RankedRules ==
    (call.op = "mba_get_recommendations" /\ mba.fitted) =>
        \E f \in [DOMAIN result -> RulesFor(call.product)] :
            /\ \A k, l \in DOMAIN result : k # l => f[k] # f[l]
            /\ \A k \in DOMAIN result :
                  /\ result[k].antecedents = mba.rules[f[k]].antecedents
                  /\ result[k].product \in mba.rules[f[k]].consequents
                  /\ result[k].confidence = mba.rules[f[k]].confidence
                  /\ result[k].lift = mba.rules[f[k]].lift
                  /\ result[k].support = mba.rules[f[k]].support
            /\ \/ Len(result) = call.top_n
               \/ Len(result) = Cardinality(RulesFor(call.product))
                     /\ Len(result) < call.top_n
            /\ \A k, l \in DOMAIN result :
                  k < l => ~RanksAbove(result[l], result[k])
            /\ \A i \in RulesFor(call.product) \ {f[k] : k \in DOMAIN result} :
                  \A k \in DOMAIN result : ~RanksAbove(mba.rules[i], result[k])

(* A query that leaves out a rule ranking below those it returns and      *)
(* standing before them in the rule table.                                 *)
C17_Witness ==
    /\ call.op = "mba_get_recommendations"
    /\ mba.fitted
    /\ call.top_n >= 1
    /\ Len(result) = call.top_n
    /\ \E i \in RulesFor(call.product) :
          /\ RLess(mba.rules[i].confidence, result[Len(result)].confidence)
          /\ \A j \in DOMAIN mba.rules :
                mba.rules[j].antecedents = result[1].antecedents => i < j

(* C27: get_recommendations(P, top_n) returns each recommended product at  *)
(* most once, also when several rules with P in the antecedent have the    *)
(* same consequent product.                                                *)
C27_NoProductTwice ==
    call.op = "mba_get_recommendations" =>
        \A i, j \in DOMAIN result :
            i # j => result[i].product # result[j].product

---------------------------------------------------------------------------
(* Properties of the queries of the three models (SpecModels) *)

QueryOps ==
    {"mba_get_recommendations", "mba_get_basket_recommendations",
     "cf_get_user_recommendations", "cf_get_product_similarity",
     "hybrid_get_recommendations"}

(* What query c returns on the models as they stand *)
ResultOf(c) ==
    CASE c.op = "mba_get_recommendations" ->
             Ret(MBA_get_recommendations(mba, c.product, c.top_n, hash_order))
      [] c.op = "mba_get_basket_recommendations" ->
             Ret(MBA_get_basket_recommendations(mba, c.basket, c.top_n, hash_order))
      [] c.op = "cf_get_user_recommendations" ->
             CF_get_user_recommendations(cf, c.user_id, c.top_n)
      [] c.op = "cf_get_product_similarity" ->
             CF_get_product_similarity(cf, c.product, c.top_n)
      [] c.op = "hybrid_get_recommendations" ->
             Hybrid_get_recommendations(hybrid, c.product, c.top_n, hash_order)

(* C23: every query of the three models leaves the fitted state as it was  *)
(* and returns what its arguments and the fitted state determine, so that  *)
(* the same query gives the same result after any other queries.           *)
C23_QueriesPure ==
    [][call'.op \in QueryOps =>
          /\ mba' = mba
          /\ cf' = cf
          /\ hybrid' = hybrid
          /\ result' = ResultOf(call').value
          /\ raised' = ResultOf(call').raised]_vars

(* A query on a fitted analyzer whose rule table is not in ranked order *)
C23_Witness ==
    /\ call.op = "mba_get_recommendations"
    /\ result # <<>>
    /\ mba.rules # StableSortDesc(mba.rules, RuleKey)

---------------------------------------------------------------------------
(* Properties of CollaborativeFilteringRecommender (SpecCF) *)

(* C8: on a fitted recommender, get_product_similarity(P, top_n) does not  *)
(* return P, and get_user_recommendations(C, top_n) returns no product     *)
(* whose count in C's row of the matrix is greater than zero.              *)
C8_Excluded ==
    /\ (call.op = "cf_get_product_similarity" /\ cf.has_factors) =>
          \A i \in DOMAIN result : result[i].product # call.product
    /\ (call.op = "cf_get_user_recommendations" /\ cf.has_factors) =>
          \A i \in DOMAIN result :
              cf.user_item_matrix.cells[<<call.user_id, result[i].product>>] = 0

(* Recommendations for a customer who has bought a product, the loop       *)
(* having run over all the products.                                       *)
C8_Witness ==
    /\ call.op = "cf_get_user_recommendations"
    /\ cf.has_factors
    /\ raised = ""
    /\ Len(result) >= 1
    /\ Len(result) < call.top_n
    /\ \E p \in Range(cf.products) :
          cf.user_item_matrix.cells[<<call.user_id, p>>] > 0

(* C12: on a fitted recommender, get_product_similarity(P, top_n) fails    *)
(* with an error, and returns no result, when P is not a column of the     *)
(* fitted matrix.                                                          *)
C12_UnknownProductFails ==
    (/\ call.op = "cf_get_product_similarity"
     /\ cf.has_factors
     /\ call.product \notin Range(cf.user_item_matrix.columns)) =>
        raised # ""

(* C13: on a fitted recommender, get_user_recommendations(C, top_n) fails  *)
(* with an error, and returns no result, when customer C is not a row of   *)
(* the fitted matrix.                                                      *)
C13_UnknownCustomerFails ==
    (/\ call.op = "cf_get_user_recommendations"
     /\ cf.has_factors
     /\ call.user_id \notin Range(cf.user_item_matrix.index)) =>
        raised # ""

(* The score the fitted factors predict for a product and a customer *)
PredictedScore(user_id, p) ==
    Dot(cf.item_factors[IndexOf(cf.products, p)],
        cf.user_factors[IndexOf(cf.user_item_matrix.index, user_id)])

NotPurchased(user_id) ==
    {p \in Range(cf.user_item_matrix.columns) :
        cf.user_item_matrix.cells[<<user_id, p>>] = 0}

(* C18: on a fitted recommender, for a known customer C and top_n >= 0     *)
(* (0 included), get_user_recommendations(C, top_n) returns at most top_n  *)
(* entries, by non-increasing predicted score, and they are the            *)
(* highest-scoring of the products C has not purchased.                    *)
C18_TopNUnpurchased ==
    (/\ call.op = "cf_get_user_recommendations"
     /\ cf.has_factors
     /\ raised = ""
     /\ call.user_id \in Range(cf.user_item_matrix.index)) =>
        /\ Len(result) <= call.top_n
        /\ \A k, l \in DOMAIN result :
              k < l => result[k].score >= result[l].score
        /\ \A k \in DOMAIN result :
              result[k].product \in NotPurchased(call.user_id)
        /\ \A p \in NotPurchased(call.user_id)
                     \ {result[k].product : k \in DOMAIN result} :
              /\ Len(result) = call.top_n
              /\ \A k \in DOMAIN result :
                    PredictedScore(call.user_id, p) <= result[k].score

(* The stored matrix, product list and factors all come from one fit on   *)
(* one matrix, or nothing is stored at all.                                *)
OneFit(self) ==
    \/ /\ ~self.has_matrix
       /\ ~self.has_products
       /\ ~self.has_factors
       /\ ~self.has_item_factors
    \/ /\ self.has_matrix
       /\ self.has_products
       /\ self.has_factors
       /\ self.has_item_factors
       /\ self.products = self.user_item_matrix.columns
       /\ self.item_factors \in SVDComponents(self.n_components,
                                               self.user_item_matrix)
       /\ self.user_factors = FitTransform(self.user_item_matrix,
                                           self.item_factors, self.n_components)

(* C24: after any fit, completed or raised part-way, the stored matrix,    *)
(* product list, user factors and item factors all come from the same      *)
(* input matrix.                                                           *)
C24_FitWholesale ==
    call.op = "cf_fit" => OneFit(cf)

CFQueries == {"cf_get_user_recommendations", "cf_get_product_similarity"}

(* C25: fit takes no lock, so a query between two lines of a fit can read  *)
(* the new matrix and products with the factors of the fit before; a       *)
(* query issued when every fit so far has run to its end sees matrix,      *)
(* products and factors of one fit.                                        *)
C25_QueryAfterFits ==
    (call.op \in CFQueries /\ fit.at = "idle" /\ ~fit.raised) => OneFit(cf)

(* A query that ran between line 135 and line 139 of a refit and read the  *)
(* new product list with the item factors of the fit before.               *)
C25_Witness ==
    /\ call.op \in CFQueries
    /\ fit.at = "line139"
    /\ cf.products = fit.user_item_matrix.columns
    /\ cf.has_item_factors
    /\ Len(cf.item_factors) # Len(cf.products)

---------------------------------------------------------------------------
(* Properties of HybridRecommender (SpecHybrid) *)

InList(recs, X) == \E i \in DOMAIN recs : recs[i].product = X

(* The highest-ranked and the lowest-ranked entry of a list for X *)
FirstEntryFor(recs, X) ==
    recs[CHOOSE i \in DOMAIN recs :
            recs[i].product = X /\ \A j \in 1..(i - 1) : recs[j].product # X]

LastEntryFor(recs, X) ==
    recs[CHOOSE i \in DOMAIN recs :
            recs[i].product = X
                /\ \A j \in (i + 1)..Len(recs) : recs[j].product # X]

(* The candidate lists of the last get_recommendations call *)
MBACandidates ==
    MBA_get_recommendations(hybrid.mba, call.product, 2 * call.top_n, hash_order)

CFCandidates ==
    CF_get_product_similarity(hybrid.cf, call.product, 2 * call.top_n).value

(* C9: a product X of both candidate lists has the combined score          *)
(* mba_weight * c + cf_weight * s, s its similarity in the collaborative   *)
(* list and c the confidence of its highest-ranked market-basket entry.    *)
C9_WeightedSum ==
    (call.op = "hybrid_get_recommendations" /\ raised = "") =>
        \A i \in DOMAIN result :
            LET X == result[i].product
            IN  (InList(MBACandidates, X) /\ InList(CFCandidates, X)) =>
                    result[i].score =
                        RAdd(RMul(hybrid.mba_weight,
                                  FirstEntryFor(MBACandidates, X).confidence),
                             RMul(hybrid.cf_weight,
                                  FirstEntryFor(CFCandidates, X).similarity))

MergedProducts ==
    {MBACandidates[i].product : i \in DOMAIN MBACandidates}
        \cup {CFCandidates[i].product : i \in DOMAIN CFCandidates}

(* The score of a merged product: the weighted confidence of the entry the *)
(* merge keeps for it (the last of the market-basket list), plus its       *)
(* weighted similarity; a list without the product adds nothing.           *)
MergedScore(X) ==
    RAdd(IF InList(MBACandidates, X)
         THEN RMul(hybrid.mba_weight, LastEntryFor(MBACandidates, X).confidence)
         ELSE Rat(0, 1),
         IF InList(CFCandidates, X)
         THEN RMul(hybrid.cf_weight, LastEntryFor(CFCandidates, X).similarity)
         ELSE Rat(0, 1))

(* C10: get_recommendations(P, top_n) merges the 2 * top_n candidates of   *)
(* each model by product, a product of one list alone scoring its single   *)
(* weighted term, and returns the top_n merged products of highest score   *)
(* by non-increasing score: at most top_n entries, all of them when fewer  *)
(* are merged.                                                             *)
C10_MergedTopN ==
    (call.op = "hybrid_get_recommendations" /\ raised = "") =>
        /\ Len(result) <= call.top_n
        /\ Len(result) = call.top_n \/ Len(result) = Cardinality(MergedProducts)
        /\ \A i \in DOMAIN result :
              /\ result[i].product \in MergedProducts
              /\ result[i].score = MergedScore(result[i].product)
        /\ \A i, j \in DOMAIN result :
              i < j => /\ result[i].product # result[j].product
                       /\ RLeq(result[j].score, result[i].score)
        /\ \A X \in MergedProducts \ {result[i].product : i \in DOMAIN result} :
              \A i \in DOMAIN result : RLeq(MergedScore(X), result[i].score)

(* A query of a fitted recommender that merges more products than top_n    *)
(* and returns one that a single list proposes.                            *)
C10_Witness ==
    /\ call.op = "hybrid_get_recommendations"
    /\ raised = ""
    /\ hybrid.cf.has_factors
    /\ call.top_n >= 1
    /\ Len(result) = call.top_n
    /\ Cardinality(MergedProducts) > call.top_n
    /\ \E i \in DOMAIN result :
          InList(MBACandidates, result[i].product)
              # InList(CFCandidates, result[i].product)

(* C28: get_recommendations(P, top_n) of a fitted hybrid recommender never *)
(* returns P itself and returns each product at most once.                 *)
C28_NotItselfNotTwice ==
    (call.op = "hybrid_get_recommendations" /\ raised = "") =>
        /\ \A i \in DOMAIN result : result[i].product # call.product
        /\ \A i, j \in DOMAIN result :
               i # j => result[i].product # result[j].product

(* A query of a fitted recommender that returns two products, one of them  *)
(* proposed by both lists.                                                 *)
C28_Witness ==
    /\ call.op = "hybrid_get_recommendations"
    /\ raised = ""
    /\ hybrid.mba.fitted
    /\ hybrid.cf.has_item_factors
    /\ Len(result) >= 2
    /\ \E i \in DOMAIN result :
           InList(MBACandidates, result[i].product)
               /\ InList(CFCandidates, result[i].product)

(* The model a query was made on has had no fit called on it *)
NeverFit(op) ==
    CASE op \in {"mba_get_recommendations", "mba_get_basket_recommendations"} ->
             ~mba.fitted
      [] op \in CFQueries ->
             ~cf.has_matrix /\ ~cf.has_products
      [] op = "hybrid_get_recommendations" ->
             ~hybrid.mba.fitted /\ ~hybrid.cf.has_matrix /\ ~hybrid.cf.has_products
      [] OTHER -> FALSE

(* C29: a query issued before the first fit returns an empty list and      *)
(* raises no error, for the analyzer's two queries, the collaborative      *)
(* recommender's two queries and the hybrid query.                         *)
C29_QueryBeforeFit ==
    (call.op \in QueryOps /\ NeverFit(call.op)) =>
        (result = <<>> /\ raised = "")

(* C30: in the matrix of get_co_occurrence_matrix the count of two         *)
(* distinct products A and B is at most the number of purchase rows of A,  *)
(* so that the count over the rows of A (an edge's strength, and a         *)
(* hundredth of an insight's percentage) is at most 1.                     *)
C30_CountAtMostPurchases ==
    (call.op = "get_co_occurrence_matrix" /\ raised = "") =>
        \A pq \in DOMAIN result :
            pq[1] # pq[2] => result[pq] <= TotalPurchases(df.rows, pq[1])

===========================================================================
